---- MODULE Spec2Model ----
(***************************************************************************)
(* State-machine model of the Bookla booking widgets (flexible, rental,    *)
(* group-day-events, villa-weekly).  Each widget is a React component: a   *)
(* click handler or an effect runs to its first await as one step, the     *)
(* request it awaits is a record in flight, and its continuation runs as   *)
(* one step when the request resolves or rejects.  Effects that a state    *)
(* change triggers are part of the step that makes the change.             *)
(***************************************************************************)
EXTENDS Integers, Sequences, FiniteSets, TLC

\* ---------------------------------------------------------------- bounds
\* Calendar days the user can pick are 1..MaxDay (day 1 is today).
MaxDay == 2
\* Availability requests of one kind that may be in flight together.
MaxInFlight == 2
\* Availability-input changes (date, duration, resource, month, ...) per run.
MaxChanges == 2
\* the slots one resource has in an answer handed to the rental matcher
MaxSlots == 2

\* ------------------------------------------------------- program constants
\* null / undefined where a string is expected, and where an object is.
NULL == "null"
NullObject == [isNull |-> TRUE]
DayMs == 86400000
HourMs == 3600000
MinuteMs == 60000

Days == 1..MaxDay

\* ------------------------------------------------------------------ state
VARIABLES
    props,            \* the component's props and environment (fixed)
    currentStep,      \* BookingStep (villa: step)
    loading, submiting, error, serviceLoaded,
    serviceReq,       \* services.get in flight
    timesReqs,        \* services.getTimes requests in flight, in issue order
    datesReqs,        \* services.getDates requests in flight, in issue order
    bookingReqs,      \* bookings.request calls in flight
    availableDates,
    location,         \* window.location.href: "page", "/login" or a paymentURL
    navigated,        \* route the injected router was asked to open
    termsAccepted,
    formValues,       \* FormView's guestData and formData (local state)
    formErrors,       \* FormView's formErrors
    formData, clientData,          \* the parent's copies
    flex,             \* flexible widget: selection state
    rental,           \* rental widget: date range, slot, picker state
    group,            \* group-day-events widget: events, selection
    villa,            \* villa-weekly widget: stay, price, slot
    issued,           \* getTimes history: the latest request and its outcome
    getTimesResponse, \* the getTimes answer handed to the rental matcher
    changes           \* availability-input changes made so far

vars == <<props, currentStep, loading, submiting, error, serviceLoaded,
          serviceReq, timesReqs, datesReqs, bookingReqs, availableDates,
          location, navigated, termsAccepted, formValues, formErrors,
          formData, clientData, flex, rental, group, villa, issued,
          getTimesResponse, changes>>

formVars == <<formValues, formErrors, formData, clientData>>
outVars == <<location, navigated>>
widgetVars == <<flex, rental, group, villa, getTimesResponse>>
notFlex == <<rental, group, villa, getTimesResponse>>
notRental == <<flex, group, villa, getTimesResponse>>
notGroup == <<flex, rental, villa, getTimesResponse>>
notVilla == <<flex, rental, group, getTimesResponse>>

\* ---------------------------------------------------------------- helpers
Last(s) == s[Len(s)]

RemoveAt(s, i) == [j \in 1..(Len(s) - 1) |-> IF j < i THEN s[j] ELSE s[j + 1]]

Range(s) == {s[i] : i \in 1..Len(s)}

\* Array.prototype.sort((a, b) => a - b) on numbers (and the default sort
\* on YYYY-MM-DD strings, which orders them by day): a stable insertion sort.
RECURSIVE InsertNum(_, _)
InsertNum(x, s) ==
    IF s = <<>> THEN <<x>>
    ELSE IF x < Head(s) THEN <<x>> \o s
    ELSE <<Head(s)>> \o InsertNum(x, Tail(s))

RECURSIVE SortNum(_)
SortNum(s) ==
    IF s = <<>> THEN <<>>
    ELSE InsertNum(Last(s), SortNum(SubSeq(s, 1, Len(s) - 1)))

\* Array.prototype.flat() / flatMap over a sequence of sequences.
RECURSIVE Flat(_)
Flat(ss) == IF ss = <<>> THEN <<>> ELSE Head(ss) \o Flat(Tail(ss))

\* [...new Set(xs)]: first occurrences, in order.
RECURSIVE Unique(_)
Unique(s) ==
    IF s = <<>> THEN <<>>
    ELSE LET r == Unique(SubSeq(s, 1, Len(s) - 1))
         IN  IF Last(s) \in Range(r) THEN r ELSE Append(r, Last(s))

\* ------------------------------------------------------------- durations
\* props.durations of the flexible widget: min 1h00, step 0h30, and max
\* 1h30 (the picker has two values) or 1h00 (it has one).
RangedDurations ==
    [min  |-> [days |-> 0, hours |-> 1, minutes |-> 0],
     step |-> [days |-> 0, hours |-> 0, minutes |-> 30],
     max  |-> [days |-> 0, hours |-> 1, minutes |-> 30]]

FixedDurations == [RangedDurations EXCEPT !.max = RangedDurations.min]

\* durationToISO of the flexible widget, `PT${hours}H${minutes}M`: the
\* numbers after PT and after H.
FlexDurationToISO(duration) == [H |-> duration.hours, M |-> duration.minutes]

\* A variant of the rental widget's durationToISO that adds the days to the
\* hours as they are.
durationToISOWithDaysAsHours(duration) ==
    [H |-> duration.days + duration.hours, M |-> duration.minutes]

\* durationToISO of the rental widget, `PT${days * 24 + hours}H${minutes}M`.
durationToISO(duration) ==
    [H |-> duration.days * 24 + duration.hours, M |-> duration.minutes]

DurationMs(duration) ==
    duration.days * DayMs + duration.hours * HourMs + duration.minutes * MinuteMs

convertToMinutes(duration) == duration.hours * 60 + duration.minutes

convertToHoursAndMinutes(totalMinutes) ==
    [days |-> 0, hours |-> totalMinutes \div 60, minutes |-> totalMinutes % 60]

\* ------------------------------------------------------------ form fields
GuestLabels == {"firstName", "lastName", "email"}

guestFields(guestFormEnabled) ==
    IF guestFormEnabled
    THEN << [labelText |-> "firstName", type |-> "text", required |-> TRUE,
             errorText |-> "First name is required"],
            [labelText |-> "lastName", type |-> "text", required |-> FALSE,
             errorText |-> "Last name is required"],
            [labelText |-> "email", type |-> "text", required |-> TRUE,
             errorText |-> "Email is required"] >>
    ELSE <<>>

allFields(p) == guestFields(p.guestMode) \o p.customFields

Labels(p) == {f.labelText : f \in Range(allFields(p))}

\* The values of a field.  NULL is a key never typed (undefined); a
\* multiselect field holds a list of options: none, or one.
EmptyList == "[]"
OneOption == "[a]"

\* A variant of the emptiness test that knows the empty string only.
IsEmptyString(v) == v = ""

\* !value || value.length === 0
IsEmptyValue(v) == v \in {NULL, "", EmptyList}
\* !isNaN(value): a string of white space converts to 0.
IsNumeric(v) == v \in {"42", " "}
\* new URL(value) does not throw
ParsesAsURL(v) == v \in {"https://a.b"}
\* /^\+?[\d\s-()]+$/.test(value)
MatchesPhone(v) == v \in {"42", " ", "+1 (2) 3-4"}

validateField(field, value) ==
    IF field.required /\ IsEmptyValue(value)
    THEN IF field.errorText # "" THEN field.errorText
         ELSE "This field is required"
    ELSE IF ~field.required THEN NULL
    ELSE CASE field.type = "url" ->
                IF ParsesAsURL(value) THEN NULL ELSE "Please enter a valid URL"
           [] field.type = "number" ->
                IF ~IsEmptyValue(value) /\ ~IsNumeric(value)
                THEN "Please enter a valid number" ELSE NULL
           [] field.type = "phone" ->
                IF ~IsEmptyValue(value) /\ ~MatchesPhone(value)
                THEN "Please enter a valid phone number" ELSE NULL
           [] OTHER -> NULL

\* validateForm: the errors map (label -> message) and isValid.
RECURSIVE validateErrors(_, _)
validateErrors(fields, values) ==
    IF fields = <<>> THEN << >>
    ELSE LET field == Last(fields)
             rest == validateErrors(SubSeq(fields, 1, Len(fields) - 1), values)
             err == validateField(field, values[field.labelText])
         IN  IF err # NULL THEN (field.labelText :> err) @@ rest ELSE rest

\* A variant of validateForm that reports the errors but always says valid.
validateFormLenient(fields, values) ==
    [isValid |-> TRUE, errors |-> validateErrors(fields, values)]

validateForm(fields, values) ==
    LET errors == validateErrors(fields, values)
    IN  [isValid |-> \A i \in 1..Len(fields) :
                        validateField(fields[i], values[fields[i].labelText]) = NULL,
         errors |-> errors]

EmptyForm(p) == [l \in Labels(p) |-> NULL]

\* handleFormDataChange / handleClientDataChange of the parent.
ClientOf(data) ==
    LET email == IF "email" \in DOMAIN data /\ data["email"] # NULL
                 THEN data["email"] ELSE ""
    IN  IF email # ""
        THEN [id |-> "uuid", email |-> email,
              firstName |-> IF "firstName" \in DOMAIN data
                            THEN data["firstName"] ELSE NULL,
              lastName |-> IF "lastName" \in DOMAIN data
                           THEN data["lastName"] ELSE NULL]
        ELSE NullObject

\* The typed keys of `values` that are not guest keys.
MetaOf(values) ==
    [l \in {k \in DOMAIN values : k \notin GuestLabels /\ values[k] # NULL}
        |-> values[l]]

\* ------------------------------------------------------------------ props
\* One custom form field, as configured in props.customForm.fields.
NotesField ==
    [labelText |-> "notes", type |-> "number", required |-> TRUE,
     errorText |-> "Notes are required"]

\* props and environment of a flexible widget instance.
\* The time zones of the model and their offsets from UTC in minutes.
\* "" is a service without a time zone.
OffsetOf(timeZone) ==
    CASE timeZone = "UTC+2" -> 120
      [] timeZone = "UTC-5" -> -300
      [] OTHER -> 0

\* useRouter().routes: the pages of the site, id and path, in the order of
\* Object.entries.
Route(id, path) == [id |-> id, path |-> path]

SiteRoutes ==
    <<Route("home", "/"), Route("thanks", "/thanks"), Route("wait", "/wait")>>

\* props.routes: the paths of the result pages.
ResultRoutes == [confirmed |-> "/thanks", pending |-> "/wait"]

\* What the server may answer to a getDates request: response.dates is a
\* map resourceID -> dates; the lists overlap and are in no order.
ServiceDates ==
    { <<>>, << <<MaxDay>> >>, << <<MaxDay, 1>>, <<MaxDay>> >> }

\* What the server may answer to the getDates of the villa widget:
\* nothing, the first week, or both weeks (the second list repeats a day
\* of the first).
VillaServiceDates ==
    { <<>>,
      << [d \in 1..7 |-> d] >>,
      << [d \in 1..7 |-> 7 + d], <<1>>, [d \in 1..7 |-> d] >> }

Props(widget, configured, guestMode, clientTokens, customFields, showTerms, rich) ==
    [widget |-> widget, configured |-> configured, guestMode |-> guestMode,
     clientTokens |-> clientTokens, customFields |-> customFields,
     showTerms |-> showTerms,
     resourcePicker |-> rich,
     durations |-> IF rich THEN RangedDurations ELSE FixedDurations,
     participants |-> [min |-> 1, max |-> 2],
     getDates |-> IF widget = "villa" THEN VillaServiceDates ELSE ServiceDates,
     browserTimeZone |-> "UTC", serviceTimeZone |-> "UTC",
     lengthMode |-> "weeks", weeksStartRule |-> 0, todayWeekday |-> 0,
     daysBaseLength |-> 7, daysMaxTotal |-> 14, fixedLengthDays |-> 0,
     routes |-> ResultRoutes, router |-> SiteRoutes]

\* The instances of the flexible widget: not configured; a visitor who must
\* log in; a client who books directly and accepts the terms; a guest who
\* fills the guest form; a client who fills a custom form.
FlexProps ==
    { Props("flexible", FALSE, TRUE, FALSE, <<>>, FALSE, FALSE),
      Props("flexible", TRUE, FALSE, FALSE, <<>>, FALSE, TRUE),
      Props("flexible", TRUE, FALSE, TRUE, <<>>, TRUE, FALSE),
      Props("flexible", TRUE, TRUE, FALSE, <<>>, FALSE, FALSE),
      Props("flexible", TRUE, FALSE, TRUE, <<NotesField>>, FALSE, FALSE) }

\* The instances of the rental widget (it has no terms checkbox).
RentalProps ==
    { Props("rental", FALSE, TRUE, FALSE, <<>>, FALSE, FALSE),
      Props("rental", TRUE, FALSE, FALSE, <<>>, FALSE, FALSE),
      Props("rental", TRUE, FALSE, TRUE, <<>>, FALSE, FALSE),
      Props("rental", TRUE, TRUE, FALSE, <<>>, FALSE, FALSE) }

\* The instances of the group-day-events widget: not configured; a visitor
\* who has to log in; a client who books directly; a guest who fills the
\* form and accepts the terms; a
\* client on a site that has no page at routes.pending; a client, with the
\* terms shown, on a site that has neither the result pages nor a page at "/".
GroupProps ==
    { Props("group", FALSE, TRUE, FALSE, <<>>, FALSE, FALSE),
      Props("group", TRUE, FALSE, FALSE, <<>>, FALSE, FALSE),
      Props("group", TRUE, FALSE, TRUE, <<>>, FALSE, FALSE),
      Props("group", TRUE, TRUE, FALSE, <<>>, TRUE, FALSE),
      [Props("group", TRUE, FALSE, TRUE, <<>>, FALSE, FALSE)
          EXCEPT !.router = <<Route("home", "/"), Route("thanks", "/thanks")>>],
      [Props("group", TRUE, FALSE, TRUE, <<>>, TRUE, FALSE)
          EXCEPT !.router = <<Route("about", "/about")>>] }

\* The instances of the villa-weekly widget: bkla or serviceID or
\* resourceID missing; weeks with terms and result pages; days without.
VillaProps ==
    { Props("villa", FALSE, TRUE, FALSE, <<>>, FALSE, FALSE),
      Props("villa", TRUE, TRUE, FALSE, <<>>, TRUE, FALSE),
      [Props("villa", TRUE, TRUE, FALSE, <<>>, FALSE, FALSE)
          EXCEPT !.lengthMode = "days", !.routes = NullObject] }

PropsSet == FlexProps \cup RentalProps \cup GroupProps \cup VillaProps

\* bookla.isAuthenticated().accessToken !== undefined
isAuthorized == props.clientTokens

\* props.bkla.companyID === "" || props.serviceID === ""
NotConfigured == ~props.configured

\* A variant of the test in proceedToNextStep that looks at guestMode alone.
NeedsGuestForm == props.guestMode

\* props.guestMode || props.customForm.fields?.length > 0
NeedsForm == props.guestMode \/ Len(props.customFields) > 0

SelectionStep ==
    CASE props.widget = "flexible" -> "Date"
      [] props.widget = "rental" -> "DateRange"
      [] props.widget = "group" -> "Events"
      [] OTHER -> "list"

\* The early returns of the render function: the loading and the error view
\* replace the pickers and the action button.
MainView == ~(~serviceLoaded /\ (loading \/ error # NULL))

\* The page is still this one (no full-page redirect has happened).
OnPage == location = "page"

\* ------------------------------------------------------------------ slots
Slot(start, durMs) == [startTime |-> start, endTime |-> start + durMs]

\* new Date(t).toLocaleTimeString(): the local time of day, to the second.
toLocaleTimeString(t, offsetMin) == ((t + offsetMin * MinuteMs) \div 1000) % 86400

RECURSIVE InsertSlot(_, _)
InsertSlot(x, s) ==
    IF s = <<>> THEN <<x>>
    ELSE IF x.timeSlot.startTime < Head(s).timeSlot.startTime THEN <<x>> \o s
    ELSE <<Head(s)>> \o InsertSlot(x, Tail(s))

RECURSIVE SortSlots(_)
SortSlots(s) ==
    IF s = <<>> THEN <<>>
    ELSE InsertSlot(Last(s), SortSlots(SubSeq(s, 1, Len(s) - 1)))

\* The filter of formatSlots: keep a slot when it is the first of the list
\* with its local time of day.
FirstOfTime(s, offsetMin) ==
    LET keep == {i \in 1..Len(s) :
                    \A j \in 1..(i - 1) :
                        toLocaleTimeString(s[j].timeSlot.startTime, offsetMin)
                          # toLocaleTimeString(s[i].timeSlot.startTime, offsetMin)}
        RECURSIVE Pick(_)
        Pick(i) == IF i > Len(s) THEN <<>>
                   ELSE IF i \in keep THEN <<s[i]>> \o Pick(i + 1)
                   ELSE Pick(i + 1)
    IN  Pick(1)

\* response.times is a map resourceID -> slots; `times` lists its entries
\* in Object.keys order.
formatSlots(times, offsetMin) ==
    LET timeSlots ==
            Flat([i \in 1..Len(times) |->
                    [j \in 1..Len(times[i].slots) |->
                        [timeSlot |-> times[i].slots[j],
                         resourceID |-> times[i].resourceID]]])
    IN  FirstOfTime(SortSlots(timeSlots), offsetMin)

\* A getTimes request joins those in flight and becomes the latest one.
IssueTimes(reqs, req) ==
    [i \in 1..Len(reqs) |-> [reqs[i] EXCEPT !.latest = FALSE]]
        \o <<[req EXCEPT !.latest = TRUE]>>

\* The history of getTimes: whether the request issued last is still in
\* flight, failed, or resolved with `result`; "none" when no request was
\* issued since the selection was last cleared.
Issued(state, result) == [state |-> state, result |-> result]

\* The outcome kept for the latest request only.
OutcomeOf(req, outcome) == IF req.latest THEN outcome ELSE issued

\* ------------------------------------------------------- flexible widget
ServiceResources == <<"r1", "r2">>

FlexTimesReq(date, duration, resourceID) ==
    [date |-> date, duration |-> FlexDurationToISO(duration),
     durMs |-> DurationMs(duration),
     resourceIDs |-> IF resourceID # NULL THEN <<resourceID>> ELSE <<>>,
     latest |-> TRUE]

\* What the server may answer to a getTimes request of the flexible widget:
\* slots of the requested day and duration, of the requested resources.
FlexTimesResponses(req) ==
    LET t0 == req.date * DayMs + 10 * HourMs
        all == << [resourceID |-> "r1",
                   slots |-> <<Slot(t0, req.durMs), Slot(t0 + HourMs, req.durMs)>>],
                  [resourceID |-> "r2", slots |-> <<Slot(t0, req.durMs)>>] >>
        wanted(e) == req.resourceIDs = <<>> \/ e.resourceID \in Range(req.resourceIDs)
        filtered == IF wanted(all[1]) /\ wanted(all[2]) THEN all
                    ELSE IF wanted(all[1]) THEN <<all[1]>> ELSE <<all[2]>>
    IN  {<<>>, filtered}

\* The answers of the server to a getDates request.
DatesResponses == props.getDates

\* uniqueDates, were the Set's order of insertion kept.
uniqueDatesAsListed(dates) == Unique(Flat(dates))

uniqueDates(dates) == SortNum(Unique(Flat(dates)))

\* The effect on [currentStep, selectedDate, selectedResourceID,
\* currentDuration, serviceLoaded] calls onDateChange, whose guard lets it
\* issue a request only for a configured, loaded service.
FlexTimesFires(step, loaded) == step = "Date" /\ loaded /\ ~NotConfigured

\* The effect on [selectedResourceID, currentDuration, serviceLoaded] calls
\* fetchAvailableDates.
FlexDatesFires(loaded) == loaded /\ ~NotConfigured

FlexDatesReq(duration, resourceID) ==
    [duration |-> FlexDurationToISO(duration),
     resourceIDs |-> IF resourceID # NULL THEN <<resourceID>> ELSE <<>>]

\* loadServiceData, after services.get resolved.
FlexLoadServiceResolve(type) ==
    /\ props.widget = "flexible" /\ OnPage /\ serviceReq
    /\ serviceReq' = FALSE
    /\ IF type # "flexible"
       THEN /\ error' = "This component only supports flexible-duration services."
            /\ serviceLoaded' = FALSE
            /\ loading' = FALSE
            /\ UNCHANGED <<flex, timesReqs, datesReqs, issued>>
       ELSE /\ serviceLoaded' = TRUE
            /\ error' = NULL
            /\ loading' = TRUE
            /\ flex' = [flex EXCEPT !.resources = ServiceResources,
                                    !.selectedTime = NullObject]
            /\ timesReqs' = IssueTimes(timesReqs,
                   FlexTimesReq(flex.selectedDate, flex.currentDuration,
                                flex.selectedResourceID))
            /\ issued' = Issued("pending", <<>>)
            /\ datesReqs' = Append(datesReqs,
                   FlexDatesReq(flex.currentDuration, flex.selectedResourceID))
    /\ UNCHANGED <<props, currentStep, submiting, bookingReqs,
                   availableDates, outVars, termsAccepted, formVars, changes,
                   notFlex>>

\* loadServiceData, after services.get rejected.
LoadServiceReject ==
    /\ OnPage /\ serviceReq
    /\ serviceReq' = FALSE
    /\ error' = "Failed to load service data"
    /\ serviceLoaded' = FALSE
    /\ loading' = FALSE
    /\ UNCHANGED <<props, currentStep, submiting, timesReqs, datesReqs,
                   bookingReqs, availableDates, outVars, termsAccepted,
                   formVars, widgetVars, issued, changes>>

\* DatePicker.isDateAvailable
FlexIsDateAvailable(date) ==
    IF availableDates = <<>> THEN TRUE ELSE date \in Range(availableDates)

\* The state change setSelectedDate(date) with the effect it triggers.
FlexSetSelectedDate(date, extra) ==
    IF FlexTimesFires(currentStep, serviceLoaded)
    THEN LET req == FlexTimesReq(date, flex.currentDuration,
                                 flex.selectedResourceID)
         IN  /\ Len(timesReqs) + Len(extra) < MaxInFlight
             /\ flex' = [flex EXCEPT !.selectedDate = date, !.selectedTime = NullObject]
             /\ loading' = TRUE
             /\ error' = NULL
             /\ timesReqs' = IssueTimes(IF extra = <<>> THEN timesReqs
                                        ELSE IssueTimes(timesReqs, extra[1]), req)
             /\ issued' = Issued("pending", <<>>)
    ELSE /\ flex' = [flex EXCEPT !.selectedDate = date]
         /\ UNCHANGED <<loading, error, timesReqs, issued>>

\* DatePicker.handleDateClick on a day button.
FlexHandleDateClick(date) ==
    /\ props.widget = "flexible" /\ OnPage /\ MainView
    /\ currentStep = "Date"
    /\ FlexIsDateAvailable(date)
    /\ changes < MaxChanges
    /\ changes' = changes + 1
    /\ FlexSetSelectedDate(date, <<>>)
    /\ UNCHANGED <<props, currentStep, submiting, serviceLoaded, serviceReq,
                   datesReqs, bookingReqs, availableDates, outVars,
                   termsAccepted, formVars, notFlex>>

\* DatePicker.handleNativeDateChange: the date input in the header of the
\* picker calls doChangeDate with whatever date the visitor chose.
FlexHandleNativeDateChange(date) ==
    /\ props.widget = "flexible" /\ OnPage /\ MainView
    /\ currentStep = "Date"
    /\ date # flex.selectedDate
    /\ changes < MaxChanges
    /\ changes' = changes + 1
    /\ FlexSetSelectedDate(date, <<>>)
    /\ UNCHANGED <<props, currentStep, submiting, serviceLoaded, serviceReq,
                   datesReqs, bookingReqs, availableDates, outVars,
                   termsAccepted, formVars, notFlex>>

\* TimePicker.getNextAvailableDate
laterDates == {d \in Range(availableDates) : d > flex.selectedDate}

getNextAvailableDate == CHOOSE d \in laterDates : \A e \in laterDates : d <= e

\* TimePicker.handleGoToNextAvailableDate: the parent's handler calls
\* doChangeDate (which sets selectedDate) and onDateChange itself.
FlexGoToNextAvailableDate ==
    /\ props.widget = "flexible" /\ OnPage /\ MainView
    /\ currentStep = "Date"
    /\ ~loading /\ flex.timeSlots = <<>>
    /\ laterDates # {}
    /\ changes < MaxChanges
    /\ changes' = changes + 1
    /\ FlexSetSelectedDate(getNextAvailableDate,
          IF FlexTimesFires(currentStep, serviceLoaded)
          THEN <<FlexTimesReq(getNextAvailableDate, flex.currentDuration,
                              flex.selectedResourceID)>>
          ELSE <<>>)
    /\ UNCHANGED <<props, currentStep, submiting, serviceLoaded, serviceReq,
                   datesReqs, bookingReqs, availableDates, outVars,
                   termsAccepted, formVars, notFlex>>

\* The state changes setCurrentDuration / setSelectedResourceID with the two
\* effects they trigger.
FlexSetQuery(duration, picker, resourceID) ==
    /\ flex' = [flex EXCEPT !.currentDuration = duration,
                            !.pickerDuration = picker,
                            !.selectedResourceID = resourceID,
                            !.selectedTime =
                                IF FlexTimesFires(currentStep, serviceLoaded)
                                THEN NullObject ELSE @]
    /\ IF FlexTimesFires(currentStep, serviceLoaded)
       THEN /\ Len(timesReqs) < MaxInFlight
            /\ loading' = TRUE
            /\ error' = NULL
            /\ timesReqs' = IssueTimes(timesReqs,
                   FlexTimesReq(flex.selectedDate, duration, resourceID))
            /\ issued' = Issued("pending", <<>>)
       ELSE UNCHANGED <<loading, error, timesReqs, issued>>
    /\ IF FlexDatesFires(serviceLoaded)
       THEN /\ Len(datesReqs) < MaxInFlight
            /\ datesReqs' = Append(datesReqs, FlexDatesReq(duration, resourceID))
       ELSE UNCHANGED datesReqs

\* DurationPicker.handleDurationChange, were every maximum taken as 0 (no
\* upper bound).
FlexHandleDurationChangeUnbounded(up) ==
    /\ props.widget = "flexible" /\ OnPage /\ MainView
    /\ currentStep = "Date"
    /\ changes < MaxChanges
    /\ LET currentMinutes == convertToMinutes(flex.pickerDuration)
           stepMinutes == convertToMinutes(props.durations.step)
           newTotalMinutes == IF up THEN currentMinutes + stepMinutes
                              ELSE currentMinutes - stepMinutes
           minMinutes == convertToMinutes(props.durations.min)
       IN  /\ newTotalMinutes >= minMinutes
           /\ FlexSetQuery(convertToHoursAndMinutes(newTotalMinutes),
                           convertToHoursAndMinutes(newTotalMinutes),
                           flex.selectedResourceID)
    /\ changes' = changes + 1
    /\ UNCHANGED <<props, currentStep, submiting, serviceLoaded, serviceReq,
                   bookingReqs, availableDates, outVars, termsAccepted,
                   formVars, notFlex>>

\* DurationPicker.handleDurationChange
FlexHandleDurationChange(up) ==
    /\ props.widget = "flexible" /\ OnPage /\ MainView
    /\ currentStep = "Date"
    /\ changes < MaxChanges
    /\ LET currentMinutes == convertToMinutes(flex.pickerDuration)
           stepMinutes == convertToMinutes(props.durations.step)
           newTotalMinutes == IF up THEN currentMinutes + stepMinutes
                              ELSE currentMinutes - stepMinutes
           minMinutes == convertToMinutes(props.durations.min)
           maxMinutes == convertToMinutes(props.durations.max)
       IN  /\ newTotalMinutes >= minMinutes
           /\ (newTotalMinutes <= maxMinutes \/ maxMinutes = 0)
           /\ FlexSetQuery(convertToHoursAndMinutes(newTotalMinutes),
                           convertToHoursAndMinutes(newTotalMinutes),
                           flex.selectedResourceID)
    /\ changes' = changes + 1
    /\ UNCHANGED <<props, currentStep, submiting, serviceLoaded, serviceReq,
                   bookingReqs, availableDates, outVars, termsAccepted,
                   formVars, notFlex>>

\* ResourcePicker.handleSelectedResource ("" is the any-resource option).
FlexHandleSelectedResource(resourceId) ==
    /\ props.widget = "flexible" /\ OnPage /\ MainView
    /\ currentStep = "Date"
    /\ props.resourcePicker
    /\ resourceId \in Range(flex.resources) \cup {""}
    /\ LET id == IF resourceId = "" THEN NULL ELSE resourceId
       IN  /\ id # flex.selectedResourceID
           /\ FlexSetQuery(flex.currentDuration, flex.pickerDuration, id)
    /\ changes < MaxChanges
    /\ changes' = changes + 1
    /\ UNCHANGED <<props, currentStep, submiting, serviceLoaded, serviceReq,
                   bookingReqs, availableDates, outVars, termsAccepted,
                   formVars, notFlex>>

\* TimePicker.handleSelectedTime: the slot buttons are rendered when the
\* picker is not loading.
FlexHandleSelectedTime(i) ==
    /\ props.widget = "flexible" /\ OnPage /\ MainView
    /\ currentStep = "Date"
    /\ ~loading
    /\ i \in 1..Len(flex.timeSlots)
    /\ flex' = [flex EXCEPT !.selectedTime = flex.timeSlots[i]]
    /\ UNCHANGED <<props, currentStep, loading, submiting, error,
                   serviceLoaded, serviceReq, timesReqs, datesReqs,
                   bookingReqs, availableDates, outVars, termsAccepted,
                   formVars, issued, changes, notFlex>>

\* onDateChange, after services.getTimes resolved.
FlexOnDateChangeResolve(i, times) ==
    /\ props.widget = "flexible" /\ OnPage
    /\ i \in 1..Len(timesReqs)
    /\ times \in FlexTimesResponses(timesReqs[i])
    /\ flex' = [flex EXCEPT !.timeSlots = formatSlots(times, OffsetOf(props.browserTimeZone))]
    /\ loading' = FALSE
    /\ issued' = OutcomeOf(timesReqs[i],
                           Issued("done", formatSlots(times, OffsetOf(props.browserTimeZone))))
    /\ timesReqs' = RemoveAt(timesReqs, i)
    /\ UNCHANGED <<props, currentStep, submiting, error, serviceLoaded,
                   serviceReq, datesReqs, bookingReqs, availableDates,
                   outVars, termsAccepted, formVars, changes, notFlex>>

\* onDateChange, after services.getTimes rejected.
FlexOnDateChangeReject(i) ==
    /\ props.widget = "flexible" /\ OnPage
    /\ i \in 1..Len(timesReqs)
    /\ error' = "Failed to load times"
    /\ loading' = FALSE
    /\ issued' = OutcomeOf(timesReqs[i], Issued("failed", <<>>))
    /\ timesReqs' = RemoveAt(timesReqs, i)
    /\ UNCHANGED <<props, currentStep, submiting, serviceLoaded, serviceReq,
                   datesReqs, bookingReqs, availableDates, outVars,
                   termsAccepted, formVars, widgetVars, changes>>

\* fetchAvailableDates, after services.getDates resolved.
FlexFetchAvailableDatesResolve(i, dates) ==
    /\ props.widget = "flexible" /\ OnPage
    /\ i \in 1..Len(datesReqs)
    /\ dates \in DatesResponses
    /\ availableDates' = uniqueDates(dates)
    /\ datesReqs' = RemoveAt(datesReqs, i)
    /\ UNCHANGED <<props, currentStep, loading, submiting, error,
                   serviceLoaded, serviceReq, timesReqs, bookingReqs,
                   outVars, termsAccepted, formVars, widgetVars, issued,
                   changes>>

\* fetchAvailableDates, after services.getDates rejected.
FlexFetchAvailableDatesReject(i) ==
    /\ props.widget = "flexible" /\ OnPage
    /\ i \in 1..Len(datesReqs)
    /\ availableDates' = <<>>
    /\ datesReqs' = RemoveAt(datesReqs, i)
    /\ UNCHANGED <<props, currentStep, loading, submiting, error,
                   serviceLoaded, serviceReq, timesReqs, bookingReqs,
                   outVars, termsAccepted, formVars, widgetVars, issued,
                   changes>>

\* --------------------------------------------- form, booking (shared code)
\* What the user types into a field of the form.
Typed(label) ==
    CASE label = "firstName" -> {"Ann"}
      [] label = "lastName" -> {}
      [] label = "email" -> {"a@b.c", ""}
      [] OTHER -> {"42", "abc"}

\* FormView.handleInputChange, with the parent's handleFormDataChange and
\* handleClientDataChange it calls.  The inputs are disabled while a booking
\* is being submitted.
HandleInputChange(key, value) ==
    /\ props.widget \in {"flexible", "rental", "group"} /\ OnPage /\ MainView
    /\ currentStep = "Form"
    /\ ~submiting
    /\ key \in Labels(props)
    /\ value \in Typed(key)
    /\ value # formValues[key]
    /\ value = "" => formValues[key] # NULL
    /\ formValues' = [formValues EXCEPT ![key] = value]
    /\ clientData' = ClientOf(formValues')
    /\ formData' = MetaOf(formValues')
    /\ UNCHANGED <<props, currentStep, loading, submiting, error,
                   serviceLoaded, serviceReq, timesReqs, datesReqs,
                   bookingReqs, availableDates, outVars, termsAccepted,
                   formErrors, widgetVars, issued, changes>>

\* The response of bookings.request.
BookingResponses ==
    [paymentURL : {NULL, "", "https://pay"},
     status : {"confirmed", "pending", "cancelled"}]

\* response.paymentURL && response.paymentURL.length > 0
HasPaymentURL(response) == response.paymentURL \notin {NULL, ""}

\* A variant of the branches after the await that looks at the status before
\* the payment URL.
StepByStatusFirst(response, step) ==
    IF response.status = "confirmed" THEN "Success"
    ELSE IF response.status = "pending" THEN "Pending"
    ELSE step

\* The step makeBooking sets for a response (the branches after the await).
StepAfterBooking(response, step) ==
    IF HasPaymentURL(response) THEN step
    ELSE IF response.status = "confirmed" THEN "Success"
    ELSE IF response.status = "pending" THEN "Pending"
    ELSE step

\* getRouteId (findRouteId in villa): the id of the first route with the
\* path, "" when there is none.
RECURSIVE getRouteId(_, _)
getRouteId(allRoute, path) ==
    IF allRoute = <<>> THEN ""
    ELSE IF Head(allRoute).path = path THEN Head(allRoute).id
    ELSE getRouteId(Tail(allRoute), path)

\* A variant of proceedToRoute without the fallback to the page at "/".
proceedToRouteOnly(route) == getRouteId(props.router, route)

\* proceedToRoute: the id it hands to navigate.
proceedToRoute(route) ==
    LET routeId == getRouteId(props.router, route)
    IN  IF routeId = "" THEN getRouteId(props.router, "/") ELSE routeId

\* The effect on [currentStep]: proceedToRoute(props.routes.confirmed) on
\* Success, proceedToRoute(props.routes.pending) on Pending.
RouteAfterStep(before, after) ==
    IF after = before THEN navigated
    ELSE IF after = "Success" THEN proceedToRoute(props.routes.confirmed)
    ELSE IF after = "Pending" THEN proceedToRoute(props.routes.pending)
    ELSE navigated

\* makeBooking, after bookings.request resolved.
MakeBookingResolve(response) ==
    /\ props.widget \in {"flexible", "rental", "group"} /\ OnPage
    /\ bookingReqs # <<>>
    /\ response \in BookingResponses
    /\ bookingReqs' = Tail(bookingReqs)
    /\ location' = IF HasPaymentURL(response) THEN response.paymentURL
                   ELSE location
    /\ currentStep' = StepAfterBooking(response, currentStep)
    /\ navigated' = RouteAfterStep(currentStep, currentStep')
    /\ submiting' = FALSE
    /\ UNCHANGED <<props, loading, error, serviceLoaded, serviceReq,
                   timesReqs, datesReqs, availableDates, termsAccepted,
                   formVars, widgetVars, issued, changes>>

\* A variant of the catch block of makeBooking that drops the rejection
\* without a message.
MakeBookingRejectSilent ==
    /\ props.widget \in {"flexible", "rental", "group"} /\ OnPage
    /\ bookingReqs # <<>>
    /\ bookingReqs' = Tail(bookingReqs)
    /\ submiting' = FALSE
    /\ UNCHANGED <<props, currentStep, loading, error, serviceLoaded,
                   serviceReq, timesReqs, datesReqs, availableDates, outVars,
                   termsAccepted, formVars, widgetVars, issued, changes>>

\* A variant of makeBooking's rejection path without the finally block.
MakeBookingRejectStillSubmiting ==
    /\ props.widget \in {"flexible", "rental", "group"} /\ OnPage
    /\ bookingReqs # <<>>
    /\ bookingReqs' = Tail(bookingReqs)
    /\ error' = "Failed to request booking"
    /\ UNCHANGED <<props, currentStep, loading, submiting, serviceLoaded,
                   serviceReq, timesReqs, datesReqs, availableDates, outVars,
                   termsAccepted, formVars, widgetVars, issued, changes>>

\* A variant of the catch block of makeBooking that also shows an error
\* step (BookingStep.Error).
MakeBookingRejectToErrorStep ==
    /\ props.widget \in {"flexible", "rental", "group"} /\ OnPage
    /\ bookingReqs # <<>>
    /\ bookingReqs' = Tail(bookingReqs)
    /\ error' = "Failed to request booking"
    /\ currentStep' = "Error"
    /\ submiting' = FALSE
    /\ UNCHANGED <<props, loading, serviceLoaded, serviceReq,
                   timesReqs, datesReqs, availableDates, outVars,
                   termsAccepted, formVars, widgetVars, issued, changes>>

\* makeBooking, after bookings.request rejected.
MakeBookingReject ==
    /\ props.widget \in {"flexible", "rental", "group"} /\ OnPage
    /\ bookingReqs # <<>>
    /\ bookingReqs' = Tail(bookingReqs)
    /\ error' = "Failed to request booking"
    /\ submiting' = FALSE
    /\ UNCHANGED <<props, currentStep, loading, serviceLoaded, serviceReq,
                   timesReqs, datesReqs, availableDates, outVars,
                   termsAccepted, formVars, widgetVars, issued, changes>>

\* The login button, shown instead of the action button.
LoginRedirect ==
    /\ props.widget \in {"flexible", "rental", "group"} /\ OnPage /\ MainView
    /\ ~(isAuthorized \/ props.guestMode)
    /\ location' = "/login"
    /\ UNCHANGED <<props, currentStep, loading, submiting, error,
                   serviceLoaded, serviceReq, timesReqs, datesReqs,
                   bookingReqs, availableDates, navigated, termsAccepted,
                   formVars, widgetVars, issued, changes>>

\* The body of a bookings.request call: what makeBooking sends (metaData is
\* left out when formData has no keys: the empty map here).
BookingData(resourceID, startTime, duration) ==
    [resourceID |-> resourceID, startTime |-> startTime, duration |-> duration,
     metaData |-> formData,
     client |-> IF props.guestMode THEN clientData ELSE NullObject,
     fromStep |-> currentStep]

\* --------------------------------------------------- flexible: the steps
\* A variant of bookButtonEnabled that leaves the button usable while a
\* booking is being submitted.
FlexBookButtonEnabledWhileSubmiting ==
    /\ (isAuthorized \/ props.guestMode)
    /\ (currentStep # "Date" \/ flex.selectedTime # NullObject)
    /\ (~props.showTerms \/ termsAccepted)

FlexBookButtonEnabled ==
    /\ ~submiting
    /\ (isAuthorized \/ props.guestMode)
    /\ (currentStep # "Date" \/ flex.selectedTime # NullObject)
    /\ (~props.showTerms \/ termsAccepted)

\* makeBooking up to its await: NULL when it returns early.
FlexMakeBooking ==
    IF flex.selectedTime = NullObject THEN NullObject
    ELSE BookingData(flex.selectedTime.resourceID,
                     flex.selectedTime.timeSlot.startTime,
                     FlexDurationToISO(flex.currentDuration))

\* The part of proceedToNextStep the three step widgets share: `data` is
\* what makeBooking sends (NullObject: it returns early).
ProceedFrom(data) ==
    IF currentStep = SelectionStep
    THEN IF NeedsForm
         THEN /\ currentStep' = "Form"
              /\ formValues' = EmptyForm(props)
              /\ formErrors' = << >>
              /\ UNCHANGED <<submiting, error, bookingReqs>>
         ELSE /\ UNCHANGED <<currentStep, formValues, formErrors>>
              /\ IF data = NullObject
                 THEN UNCHANGED <<submiting, error, bookingReqs>>
                 ELSE /\ submiting' = TRUE
                      /\ error' = NULL
                      /\ bookingReqs' = Append(bookingReqs, data)
    ELSE IF currentStep = "Form"
    THEN LET validation == validateForm(allFields(props), formValues)
         IN  /\ formErrors' = validation.errors
             /\ UNCHANGED <<currentStep, formValues>>
             /\ IF ~validation.isValid \/ data = NullObject
                THEN UNCHANGED <<submiting, error, bookingReqs>>
                ELSE /\ submiting' = TRUE
                     /\ error' = NULL
                     /\ bookingReqs' = Append(bookingReqs, data)
    ELSE UNCHANGED <<currentStep, formValues, formErrors, submiting, error,
                     bookingReqs>>

\* A click on the action button: proceedToNextStep.
FlexProceedToNextStep ==
    /\ props.widget = "flexible" /\ OnPage /\ MainView
    /\ FlexBookButtonEnabled
    /\ ProceedFrom(FlexMakeBooking)
    /\ UNCHANGED <<props, loading, serviceLoaded, serviceReq, timesReqs,
                   datesReqs, availableDates, outVars, termsAccepted,
                   formData, clientData, widgetVars, issued, changes>>

\* A click on the form's back button: proceedToPreviousStep.  The pickers
\* are mounted again (DurationPicker starts at minDuration) and the effect
\* on [currentStep, ...] calls onDateChange.
FlexProceedToPreviousStep ==
    /\ props.widget = "flexible" /\ OnPage /\ MainView
    /\ currentStep = "Form"
    /\ changes < MaxChanges
    /\ changes' = changes + 1
    /\ currentStep' = "Date"
    /\ IF FlexTimesFires("Date", serviceLoaded)
       THEN /\ Len(timesReqs) < MaxInFlight
            /\ loading' = TRUE
            /\ error' = NULL
            /\ flex' = [flex EXCEPT !.selectedTime = NullObject,
                                    !.pickerDuration = props.durations.min]
            /\ timesReqs' = IssueTimes(timesReqs,
                   FlexTimesReq(flex.selectedDate, flex.currentDuration,
                                flex.selectedResourceID))
            /\ issued' = Issued("pending", <<>>)
       ELSE /\ flex' = [flex EXCEPT !.pickerDuration = props.durations.min]
            /\ UNCHANGED <<loading, error, timesReqs, issued>>
    /\ UNCHANGED <<props, submiting, serviceLoaded, serviceReq, datesReqs,
                   bookingReqs, availableDates, outVars, termsAccepted,
                   formVars, notFlex>>

\* AcceptTerms.onAcceptChange (the checkbox is part of the Date step).
FlexAcceptTerms ==
    /\ props.widget = "flexible" /\ OnPage /\ MainView
    /\ currentStep = "Date" /\ props.showTerms
    /\ termsAccepted' = ~termsAccepted
    /\ UNCHANGED <<props, currentStep, loading, submiting, error,
                   serviceLoaded, serviceReq, timesReqs, datesReqs,
                   bookingReqs, availableDates, outVars, formVars,
                   widgetVars, issued, changes>>

\* --------------------------------------------------------- rental widget
\* dateRange.startDate / endDate not chosen (null).
NoDate == 0

\* The hours the user picks from the two time selects (generateTimeOptions
\* offers every hour of the day).
TimeOptions == {8, 9}

\* JavaScript's %: the remainder has the sign of the dividend.
JsMod(a, b) == IF a >= 0 THEN a % b ELSE -((-a) % b)

\* new Date(date).setHours(hour, 0, 0, 0): the instant of that wall-clock
\* time in the browser's time zone.
LocalDateTime(date, hour) ==
    date * DayMs + hour * HourMs - OffsetOf(props.browserTimeZone) * MinuteMs

\* convertToUTC: reads the browser-local fields of localDate and takes them
\* as a wall-clock time of timeZone.
convertToUTC(localDate, timeZone) ==
    LET fields == localDate + OffsetOf(props.browserTimeZone) * MinuteMs
        offsetMs == 0 - OffsetOf(timeZone) * MinuteMs
    IN  fields + offsetMs

calculateDuration(startDateTime, endDateTime) ==
    LET diffMs == endDateTime - startDateTime
        totalMinutes == diffMs \div MinuteMs
        hours == totalMinutes \div 60
        minutes == JsMod(totalMinutes, 60)
        days == hours \div 24
    IN  [days |-> days, hours |-> JsMod(hours, 24), minutes |-> minutes]

\* A variant of the test that lets a range of 23 hours pass.
AtLeast23h(duration) ==
    (duration.days * 24 + duration.hours) * 60 + duration.minutes >= 23 * 60

\* totalHours >= 24, with totalHours = days * 24 + hours + minutes / 60.
AtLeast24h(duration) ==
    (duration.days * 24 + duration.hours) * 60 + duration.minutes >= 24 * 60

isDurationValid(dateRange) ==
    IF dateRange.startDate = NoDate \/ dateRange.endDate = NoDate THEN FALSE
    ELSE AtLeast24h(calculateDuration(
             LocalDateTime(dateRange.startDate, dateRange.startTime),
             LocalDateTime(dateRange.endDate, dateRange.endTime)))

\* The loop of checkSlotAvailability over response.times: the first slot,
\* resource by resource, that starts within a minute of startDateTime.
RECURSIVE FirstWithin(_, _, _)
FirstWithin(slots, resourceID, startDateTime) ==
    IF slots = <<>> THEN NullObject
    ELSE LET diff == Head(slots).startTime - startDateTime
             abs == IF diff < 0 THEN 0 - diff ELSE diff
         IN  IF abs < 60000
             THEN [timeSlot |-> Head(slots), resourceID |-> resourceID]
             ELSE FirstWithin(Tail(slots), resourceID, startDateTime)

\* A variant of the loop that goes through the resources from the last key.
RECURSIVE matchSlotFromLast(_, _)
matchSlotFromLast(times, startDateTime) ==
    IF times = <<>> THEN NullObject
    ELSE LET found == FirstWithin(Last(times).slots, Last(times).resourceID,
                                  startDateTime)
         IN  IF found # NullObject THEN found
             ELSE matchSlotFromLast(SubSeq(times, 1, Len(times) - 1),
                                    startDateTime)

RECURSIVE matchSlot(_, _)
matchSlot(times, startDateTime) ==
    IF times = <<>> THEN NullObject
    ELSE LET found == FirstWithin(Head(times).slots, Head(times).resourceID,
                                  startDateTime)
         IN  IF found # NullObject THEN found
             ELSE matchSlot(Tail(times), startDateTime)

\* The getTimes request of checkSlotAvailability; startDateTime is the
\* value its continuation compares the slots with.
RentalTimesReq(dateRange, timeZone) ==
    LET startDateTime == LocalDateTime(dateRange.startDate, dateRange.startTime)
        endDateTime == LocalDateTime(dateRange.endDate, dateRange.endTime)
        duration == calculateDuration(startDateTime, endDateTime)
    IN  [from |-> convertToUTC(startDateTime, timeZone),
         to |-> convertToUTC(endDateTime, timeZone),
         duration |-> durationToISO(duration),
         durMs |-> DurationMs(duration),
         startDateTime |-> startDateTime,
         latest |-> TRUE]

\* What the server may answer: no slot, or a slot of the requested
\* duration at the requested start for the second resource, with or without
\* a later slot of the first.
RentalTimesResponses(req) ==
    { <<>>,
      << [resourceID |-> "r1", slots |-> <<Slot(req.from + HourMs, req.durMs)>>],
         [resourceID |-> "r2", slots |-> <<Slot(req.from, req.durMs)>>] >> }

\* The effect on [checkSlotAvailability, isDurationValid] for the date
\* range `dateRange`: checkSlotAvailability up to its await, or
\* setSelectedSlot(null).
RentalSlotEffect(dateRange, loaded, timeZone) ==
    IF isDurationValid(dateRange) /\ ~NotConfigured /\ loaded /\ timeZone # ""
    THEN /\ Len(timesReqs) < MaxInFlight
         /\ timesReqs' = IssueTimes(timesReqs, RentalTimesReq(dateRange, timeZone))
         /\ issued' = Issued("pending", <<>>)
         /\ rental' = [dateRange EXCEPT !.serviceTimezone = timeZone]
    ELSE /\ rental' = [dateRange EXCEPT !.selectedSlot = NullObject,
                                        !.serviceTimezone = timeZone]
         /\ issued' = Issued("none", <<>>)
         /\ UNCHANGED timesReqs

\* new Date(year, month, date) of the calendar month `month` (0 is the month
\* of today; date 0 is the last day of the month before).
MonthDate(month, date) == [month |-> month, date |-> date]

\* The getDates request of the rental widget for a month: the first and the
\* last day of it, read as wall-clock times of timeZone.
RentalDatesReq(month, timeZone) ==
    [from |-> MonthDate(month, 1), to |-> MonthDate(month + 1, 0),
     timeZone |-> timeZone, duration |-> [H |-> 23, M |-> 0]]

\* A variant of fetchAvailableDates that asks for the month of today.
RentalFetchAvailableDatesOfToday(loaded, timeZone, month) ==
    IF NotConfigured \/ ~loaded \/ timeZone = ""
    THEN /\ availableDates' = <<>>
         /\ UNCHANGED datesReqs
    ELSE /\ Len(datesReqs) < MaxInFlight
         /\ datesReqs' = Append(datesReqs, RentalDatesReq(0, timeZone))
         /\ UNCHANGED availableDates

\* fetchAvailableDates(year, month) up to its await, called by the effect
\* of DateRangePicker on [currentMonth].
RentalFetchAvailableDates(loaded, timeZone, month) ==
    IF NotConfigured \/ ~loaded \/ timeZone = ""
    THEN /\ availableDates' = <<>>
         /\ UNCHANGED datesReqs
    ELSE /\ Len(datesReqs) < MaxInFlight
         /\ datesReqs' = Append(datesReqs, RentalDatesReq(month, timeZone))
         /\ UNCHANGED availableDates

\* loadServiceData, after services.get resolved: the picker is mounted
\* again when the loading view goes away.
RentalLoadServiceResolve ==
    /\ props.widget = "rental" /\ OnPage /\ serviceReq
    /\ serviceReq' = FALSE
    /\ serviceLoaded' = TRUE
    /\ loading' = FALSE
    /\ LET timeZone == IF props.serviceTimeZone # "" THEN props.serviceTimeZone
                       ELSE props.browserTimeZone
       IN  /\ RentalSlotEffect([rental EXCEPT !.selectionMode = "start",
                                               !.currentMonth = 0],
                               TRUE, timeZone)
           /\ RentalFetchAvailableDates(TRUE, timeZone, 0)
    /\ UNCHANGED <<props, currentStep, submiting, error, bookingReqs, outVars,
                   termsAccepted, formVars, changes, notRental>>

\* DateRangePicker.isDateAvailable
RentalIsDateAvailable(date) == date \in Range(availableDates)

\* handleDateClick, were a day before the start taken as the end of the
\* range like any other day.
RentalHandleDateClickAnyEnd(date) ==
    /\ props.widget = "rental" /\ OnPage /\ MainView
    /\ currentStep = "DateRange"
    /\ RentalIsDateAvailable(date)
    /\ LET dateRange ==
             IF rental.selectionMode = "start" \/ rental.startDate = NoDate
             THEN [rental EXCEPT !.startDate = date, !.endDate = NoDate,
                                 !.selectionMode = "end"]
             ELSE [rental EXCEPT !.endDate = date, !.selectionMode = "start"]
       IN  RentalSlotEffect(dateRange, serviceLoaded, rental.serviceTimezone)
    /\ UNCHANGED <<props, currentStep, loading, submiting, error,
                   serviceLoaded, serviceReq, datesReqs, bookingReqs,
                   availableDates, outVars, termsAccepted, formVars, changes,
                   notRental>>

\* DateRangePicker.handleDateClick
RentalHandleDateClick(date) ==
    /\ props.widget = "rental" /\ OnPage /\ MainView
    /\ currentStep = "DateRange"
    /\ RentalIsDateAvailable(date)
    /\ LET dateRange ==
             IF rental.selectionMode = "start" \/ rental.startDate = NoDate
                \/ date < rental.startDate
             THEN [rental EXCEPT !.startDate = date, !.endDate = NoDate,
                                 !.selectionMode = "end"]
             ELSE [rental EXCEPT !.endDate = date, !.selectionMode = "start"]
       IN  RentalSlotEffect(dateRange, serviceLoaded, rental.serviceTimezone)
    /\ UNCHANGED <<props, currentStep, loading, submiting, error,
                   serviceLoaded, serviceReq, datesReqs, bookingReqs,
                   availableDates, outVars, termsAccepted, formVars, changes,
                   notRental>>

\* DateRangePicker.handleTimeChange
RentalHandleTimeChange(type, time) ==
    /\ props.widget = "rental" /\ OnPage /\ MainView
    /\ currentStep = "DateRange"
    /\ time \in TimeOptions
    /\ changes < MaxChanges
    /\ changes' = changes + 1
    /\ LET dateRange == IF type = "start"
                        THEN [rental EXCEPT !.startTime = time]
                        ELSE [rental EXCEPT !.endTime = time]
       IN  /\ dateRange # rental
           /\ RentalSlotEffect(dateRange, serviceLoaded, rental.serviceTimezone)
    /\ UNCHANGED <<props, currentStep, loading, submiting, error,
                   serviceLoaded, serviceReq, datesReqs, bookingReqs,
                   availableDates, outVars, termsAccepted, formVars,
                   notRental>>

\* DateRangePicker.navigateMonth, with the effect on [currentMonth].
RentalNavigateMonth(direction) ==
    /\ props.widget = "rental" /\ OnPage /\ MainView
    /\ currentStep = "DateRange"
    /\ changes < MaxChanges
    /\ changes' = changes + 1
    /\ rental' = [rental EXCEPT !.currentMonth = @ + direction]
    /\ RentalFetchAvailableDates(serviceLoaded, rental.serviceTimezone,
                                 rental.currentMonth + direction)
    /\ UNCHANGED <<props, currentStep, loading, submiting, error,
                   serviceLoaded, serviceReq, timesReqs, bookingReqs, outVars,
                   termsAccepted, formVars, notRental, issued>>

\* checkSlotAvailability, after services.getTimes resolved.
RentalCheckSlotApply(i, times) ==
    /\ props.widget = "rental" /\ OnPage
    /\ i \in 1..Len(timesReqs)
    /\ LET found == matchSlot(times, timesReqs[i].startDateTime)
       IN  /\ rental' = [rental EXCEPT !.selectedSlot = found]
           /\ issued' = OutcomeOf(timesReqs[i],
                  Issued("done", IF found = NullObject THEN <<>> ELSE <<found>>))
    /\ timesReqs' = RemoveAt(timesReqs, i)
    /\ UNCHANGED <<props, currentStep, loading, submiting, error,
                   serviceLoaded, serviceReq, datesReqs, bookingReqs,
                   availableDates, outVars, termsAccepted, formVars, changes,
                   notRental>>

RentalCheckSlotResolve(i, times) ==
    /\ i \in 1..Len(timesReqs)
    /\ times \in RentalTimesResponses(timesReqs[i])
    /\ RentalCheckSlotApply(i, times)

\* checkSlotAvailability, after services.getTimes rejected.
RentalCheckSlotReject(i) ==
    /\ props.widget = "rental" /\ OnPage
    /\ i \in 1..Len(timesReqs)
    /\ rental' = [rental EXCEPT !.selectedSlot = NullObject]
    /\ issued' = OutcomeOf(timesReqs[i], Issued("failed", <<>>))
    /\ timesReqs' = RemoveAt(timesReqs, i)
    /\ UNCHANGED <<props, currentStep, loading, submiting, error,
                   serviceLoaded, serviceReq, datesReqs, bookingReqs,
                   availableDates, outVars, termsAccepted, formVars, changes,
                   notRental>>

\* fetchAvailableDates, after services.getDates resolved.
RentalFetchAvailableDatesResolve(i, dates) ==
    /\ props.widget = "rental" /\ OnPage
    /\ i \in 1..Len(datesReqs)
    /\ dates \in DatesResponses
    /\ availableDates' = uniqueDates(dates)
    /\ datesReqs' = RemoveAt(datesReqs, i)
    /\ UNCHANGED <<props, currentStep, loading, submiting, error,
                   serviceLoaded, serviceReq, timesReqs, bookingReqs, outVars,
                   termsAccepted, formVars, widgetVars, issued, changes>>

\* fetchAvailableDates, after services.getDates rejected.
RentalFetchAvailableDatesReject(i) ==
    /\ props.widget = "rental" /\ OnPage
    /\ i \in 1..Len(datesReqs)
    /\ availableDates' = <<>>
    /\ datesReqs' = RemoveAt(datesReqs, i)
    /\ UNCHANGED <<props, currentStep, loading, submiting, error,
                   serviceLoaded, serviceReq, timesReqs, bookingReqs, outVars,
                   termsAccepted, formVars, widgetVars, issued, changes>>

\* ----------------------------------------------------- rental: the steps
\* A variant of isButtonEnabled that does not look at selectedSlot.
RentalIsButtonEnabledWithoutSlot ==
    IF submiting THEN FALSE
    ELSE IF currentStep = "DateRange"
    THEN /\ isDurationValid(rental)
         /\ (isAuthorized \/ props.guestMode)
    ELSE isAuthorized \/ props.guestMode

\* A variant of isButtonEnabled that does not look at the login.
RentalIsButtonEnabledForAnyone ==
    IF submiting THEN FALSE
    ELSE IF currentStep = "DateRange"
    THEN isDurationValid(rental) /\ rental.selectedSlot # NullObject
    ELSE TRUE

RentalIsButtonEnabled ==
    IF submiting THEN FALSE
    ELSE IF currentStep = "DateRange"
    THEN /\ isDurationValid(rental)
         /\ rental.selectedSlot # NullObject
         /\ (isAuthorized \/ props.guestMode)
    ELSE isAuthorized \/ props.guestMode

\* The text of the action button.
RentalGetButtonTitle ==
    IF currentStep = "DateRange"
    THEN IF ~isDurationValid(rental)
         THEN "Please select valid dates (minimum 24h)"
         ELSE IF rental.selectedSlot = NullObject THEN "datesUnavailable"
         ELSE IF NeedsForm THEN "continue" ELSE "makeBooking"
    ELSE "makeBooking"

\* makeBooking up to its await: NullObject when it returns early.
RentalMakeBooking ==
    IF \/ rental.selectedSlot = NullObject
       \/ rental.startDate = NoDate \/ rental.endDate = NoDate
       \/ rental.serviceTimezone = ""
    THEN NullObject
    ELSE LET startDateTime == LocalDateTime(rental.startDate, rental.startTime)
             endDateTime == LocalDateTime(rental.endDate, rental.endTime)
         IN  BookingData(rental.selectedSlot.resourceID,
                         convertToUTC(startDateTime, rental.serviceTimezone),
                         durationToISO(calculateDuration(startDateTime,
                                                         endDateTime)))

\* A click on the action button: proceedToNextStep.
RentalProceedToNextStep ==
    /\ props.widget = "rental" /\ OnPage /\ MainView
    /\ RentalIsButtonEnabled
    /\ ProceedFrom(RentalMakeBooking)
    /\ UNCHANGED <<props, loading, serviceLoaded, serviceReq, timesReqs,
                   datesReqs, availableDates, outVars, termsAccepted, formData,
                   clientData, widgetVars, issued, changes>>

\* A click on the form's back button: proceedToPreviousStep.  The
\* DateRangePicker is mounted again: selectionMode starts at "start",
\* currentMonth at the month of today, and the effect on [currentMonth]
\* fetches the dates.
RentalProceedToPreviousStep ==
    /\ props.widget = "rental" /\ OnPage /\ MainView
    /\ currentStep = "Form"
    /\ changes < MaxChanges
    /\ changes' = changes + 1
    /\ currentStep' = "DateRange"
    /\ rental' = [rental EXCEPT !.selectionMode = "start", !.currentMonth = 0]
    /\ RentalFetchAvailableDates(serviceLoaded, rental.serviceTimezone, 0)
    /\ UNCHANGED <<props, loading, submiting, error, serviceLoaded,
                   serviceReq, timesReqs, bookingReqs, outVars, termsAccepted,
                   formVars, issued, notRental>>

\* ----------------------------------------------- group-day-events widget
\* props.participants
Participants == props.participants

\* formatSlots of this widget, were the slots left in the order of the
\* answer: resource by resource.
groupFormatSlotsAsListed(times) ==
    Flat([i \in 1..Len(times) |->
            [j \in 1..Len(times[i].slots) |->
                [timeSlot |-> times[i].slots[j],
                 resourceID |-> times[i].resourceID]]])

\* formatSlots of this widget: all slots with their resource, sorted by
\* start time.
groupFormatSlots(times) ==
    SortSlots(Flat([i \in 1..Len(times) |->
                      [j \in 1..Len(times[i].slots) |->
                          [timeSlot |-> times[i].slots[j],
                           resourceID |-> times[i].resourceID]]]))

\* date.setHours(0, 0, 0, 0): midnight of the slot's day in the browser's
\* time zone.
LocalMidnight(t) ==
    LET offsetMs == OffsetOf(props.browserTimeZone) * MinuteMs
    IN  ((t + offsetMs) \div DayMs) * DayMs - offsetMs

\* eventsByDate: the first slot of every date, in date order.
RECURSIVE eventsByDate(_)
eventsByDate(slots) ==
    IF slots = <<>> THEN <<>>
    ELSE LET rest == eventsByDate(SubSeq(slots, 1, Len(slots) - 1))
             date == LocalMidnight(Last(slots).timeSlot.startTime)
         IN  IF \E i \in 1..Len(rest) : rest[i].date \div DayMs = date \div DayMs
             THEN rest
             ELSE Append(rest, [date |-> date, timeSlot |-> Last(slots)])

RECURSIVE InsertEvent(_, _)
InsertEvent(x, s) ==
    IF s = <<>> THEN <<x>>
    ELSE IF x.date < Head(s).date THEN <<x>> \o s
    ELSE <<Head(s)>> \o InsertEvent(x, Tail(s))

RECURSIVE SortEvents(_)
SortEvents(s) ==
    IF s = <<>> THEN <<>>
    ELSE InsertEvent(Last(s), SortEvents(SubSeq(s, 1, Len(s) - 1)))

eventsList(times) == SortEvents(eventsByDate(groupFormatSlots(times)))

\* What the server may answer to getTimes with `spots`: nothing, or the
\* events with that many free spots (the first day has room for one only).
GroupTimesResponses(req) ==
    LET day(d) == d * DayMs + 10 * HourMs
    IN  { <<>>,
          IF req.spots = 1
          THEN << [resourceID |-> "r1", slots |-> <<Slot(day(MaxDay), HourMs)>>],
                  [resourceID |-> "r2",
                   slots |-> <<Slot(day(1), HourMs), Slot(day(1) + HourMs, HourMs)>>] >>
          ELSE << [resourceID |-> "r1", slots |-> <<Slot(day(MaxDay), HourMs)>>] >> }

\* The effect on [currentStep, currentParticipants, serviceLoaded]:
\* loadAvailableEvents up to its await.
GroupEventsEffect(step, participants, loaded) ==
    IF step = "Events" /\ loaded
    THEN IF NotConfigured
         THEN /\ group' = [group EXCEPT !.events = <<>>,
                                        !.currentParticipants = participants]
              /\ UNCHANGED <<loading, error, timesReqs>>
         ELSE /\ Len(timesReqs) < MaxInFlight
              /\ loading' = TRUE
              /\ error' = NULL
              /\ group' = [group EXCEPT !.selectedEvent = NullObject,
                                        !.currentParticipants = participants]
              /\ timesReqs' = Append(timesReqs, [spots |-> participants])
    ELSE /\ group' = [group EXCEPT !.currentParticipants = participants]
         /\ UNCHANGED <<loading, error, timesReqs>>

\* loadServiceData, after services.get resolved.
GroupLoadServiceResolve ==
    /\ props.widget = "group" /\ OnPage /\ serviceReq
    /\ serviceReq' = FALSE
    /\ serviceLoaded' = TRUE
    /\ GroupEventsEffect(currentStep, group.currentParticipants, TRUE)
    /\ UNCHANGED <<props, currentStep, submiting, datesReqs, bookingReqs,
                   availableDates, outVars, termsAccepted, formVars, issued,
                   changes, notGroup>>

\* ParticipantsPicker.handleParticipantsChange
GroupHandleParticipantsChange(increment) ==
    /\ props.widget = "group" /\ OnPage /\ MainView
    /\ currentStep = "Events"
    /\ changes < MaxChanges
    /\ changes' = changes + 1
    /\ LET newValue == IF increment THEN group.currentParticipants + 1
                       ELSE group.currentParticipants - 1
       IN  /\ newValue >= Participants.min /\ newValue <= Participants.max
           /\ GroupEventsEffect(currentStep, newValue, serviceLoaded)
    /\ UNCHANGED <<props, currentStep, submiting, serviceLoaded, serviceReq,
                   datesReqs, bookingReqs, availableDates, outVars,
                   termsAccepted, formVars, issued, notGroup>>

\* EventsList: a click on an event (the list is shown when not loading).
GroupOnEventSelect(i) ==
    /\ props.widget = "group" /\ OnPage /\ MainView
    /\ currentStep = "Events"
    /\ ~loading
    /\ i \in 1..Len(group.events)
    /\ group.selectedEvent # group.events[i]
    /\ group' = [group EXCEPT !.selectedEvent = group.events[i]]
    /\ UNCHANGED <<props, currentStep, loading, submiting, error,
                   serviceLoaded, serviceReq, timesReqs, datesReqs,
                   bookingReqs, availableDates, outVars, termsAccepted,
                   formVars, issued, changes, notGroup>>

\* loadAvailableEvents, after services.getTimes resolved with `times`.
GroupLoadEventsDone(i, times) ==
    /\ props.widget = "group" /\ OnPage
    /\ i \in 1..Len(timesReqs)
    /\ group' = [group EXCEPT !.events = eventsList(times)]
    /\ loading' = FALSE
    /\ timesReqs' = RemoveAt(timesReqs, i)
    /\ UNCHANGED <<props, currentStep, submiting, error, serviceLoaded,
                   serviceReq, datesReqs, bookingReqs, availableDates, outVars,
                   termsAccepted, formVars, issued, changes, notGroup>>

\* loadAvailableEvents, after services.getTimes resolved with one of the
\* answers to its request.
GroupLoadEventsResolve(i, times) ==
    /\ i \in 1..Len(timesReqs)
    /\ times \in GroupTimesResponses(timesReqs[i])
    /\ GroupLoadEventsDone(i, times)

\* loadAvailableEvents, after services.getTimes rejected.
GroupLoadEventsReject(i) ==
    /\ props.widget = "group" /\ OnPage
    /\ i \in 1..Len(timesReqs)
    /\ error' = "Failed to load events"
    /\ loading' = FALSE
    /\ timesReqs' = RemoveAt(timesReqs, i)
    /\ UNCHANGED <<props, currentStep, submiting, serviceLoaded, serviceReq,
                   datesReqs, bookingReqs, availableDates, outVars,
                   termsAccepted, formVars, widgetVars, issued, changes>>

GroupBookButtonEnabled ==
    /\ ~submiting
    /\ (isAuthorized \/ props.guestMode)
    /\ (currentStep # "Events" \/ group.selectedEvent # NullObject)
    /\ (~props.showTerms \/ ~props.guestMode \/ currentStep # "Form"
        \/ termsAccepted)

\* makeBooking up to its await: NullObject when it returns early.
GroupMakeBooking ==
    IF group.selectedEvent = NullObject THEN NullObject
    ELSE [resourceID |-> group.selectedEvent.timeSlot.resourceID,
          startTime |-> group.selectedEvent.timeSlot.timeSlot.startTime,
          spots |-> group.currentParticipants,
          metaData |-> formData,
          client |-> IF props.guestMode /\ clientData # NullObject
                     THEN clientData ELSE NullObject,
          fromStep |-> currentStep]

\* A click on the action button: proceedToNextStep.
GroupProceedToNextStep ==
    /\ props.widget = "group" /\ OnPage /\ MainView
    /\ GroupBookButtonEnabled
    /\ ProceedFrom(GroupMakeBooking)
    /\ UNCHANGED <<props, loading, serviceLoaded, serviceReq, timesReqs,
                   datesReqs, availableDates, outVars, termsAccepted, formData,
                   clientData, widgetVars, issued, changes>>

\* A click on the form's back button: proceedToPreviousStep, with the
\* effect on [currentStep, ...].
GroupProceedToPreviousStep ==
    /\ props.widget = "group" /\ OnPage /\ MainView
    /\ currentStep = "Form"
    /\ changes < MaxChanges
    /\ changes' = changes + 1
    /\ currentStep' = "Events"
    /\ GroupEventsEffect("Events", group.currentParticipants, serviceLoaded)
    /\ UNCHANGED <<props, submiting, serviceLoaded, serviceReq, datesReqs,
                   bookingReqs, availableDates, outVars, termsAccepted,
                   formVars, issued, notGroup>>

\* AcceptTerms.onAcceptChange (the checkbox is part of the form).
GroupAcceptTerms ==
    /\ props.widget = "group" /\ OnPage /\ MainView
    /\ currentStep = "Form" /\ props.showTerms
    /\ termsAccepted' = ~termsAccepted
    /\ UNCHANGED <<props, currentStep, loading, submiting, error,
                   serviceLoaded, serviceReq, timesReqs, datesReqs,
                   bookingReqs, availableDates, outVars, formVars, widgetVars,
                   issued, changes>>

\* --------------------------------------------------- villa-weekly widget
\* baseDays: props.daysBaseLength kept within 1..31.
BaseDays ==
    IF props.daysBaseLength < 1 THEN 1
    ELSE IF props.daysBaseLength > 31 THEN 31 ELSE props.daysBaseLength

\* maxTotalDays: props.daysMaxTotal kept within baseDays..365.
MaxTotalDays ==
    IF props.daysMaxTotal < BaseDays THEN BaseDays
    ELSE IF props.daysMaxTotal > 365 THEN 365 ELSE props.daysMaxTotal

\* fixedLengthDays (0: the visitor picks the length), never negative.
FixedLengthDays ==
    IF props.fixedLengthDays < 0 THEN 0 ELSE props.fixedLengthDays

\* Date.getDay() of day d (0 is Sunday; today is day 1).
getDay(d) == (props.todayWeekday + d - 1) % 7

\* isAllowedStartWeekdayWeeks (props.weeksStartRule as weekdayToIndex
\* gives it)
isAllowedStartWeekdayWeeks(d) == getDay(d) = props.weeksStartRule

startOfWeekBy(d, idx) == d - ((getDay(d) - idx + 7) % 7)

\* The days of the visible months the rows are built from: the current
\* month began before today, and the list goes on for three weeks.
ListDays == (1 - 6)..18

\* buildRowsForMonth: the first days of the rows the list shows. In the
\* weeks mode a row starts on the configured weekday; of the rows of the
\* days mode, the one of today and the one a base length later.
RowStarts ==
    IF props.lengthMode = "weeks"
    THEN {startOfWeekBy(d, props.weeksStartRule) :
             d \in {day \in ListDays : isAllowedStartWeekdayWeeks(day)}}
    ELSE {1, 1 + BaseDays}

\* fmt: the UTC date of the Date that is local midnight of day d.
fmt(d) == (d * DayMs - OffsetOf(props.browserTimeZone) * MinuteMs) \div DayMs

addDays(d, n) == d + n

dayMultiples ==
    IF FixedLengthDays > 0 /\ props.lengthMode = "days" THEN {FixedLengthDays}
    ELSE {n \in BaseDays..MaxTotalDays : n % BaseDays = 0}

selectedDays(v) ==
    IF props.lengthMode = "weeks"
    THEN IF v.startDate = NoDate \/ v.endDate = NoDate THEN 7
         ELSE v.endDate - v.startDate
    ELSE IF FixedLengthDays > 0 THEN FixedLengthDays ELSE v.days

endBoundary(v) ==
    IF props.lengthMode = "weeks" THEN v.endDate
    ELSE IF v.startDate # NoDate THEN addDays(v.startDate, selectedDays(v))
    ELSE NoDate

isSpanAvailable(dates, s, e) ==
    \A cur \in s..(e - 1) : fmt(cur) \in Range(dates)

canContinue(v, dates) ==
    /\ v.startDate # NoDate /\ endBoundary(v) # NoDate
    /\ isSpanAvailable(dates, v.startDate, endBoundary(v))

\* visibleMonths (DEFAULTS.VISIBLE_MONTHS)
VisibleMonths == 3

\* The getDates request of fetchAvailability(anchor, months).
VillaDatesReq(anchor, months) ==
    [from |-> MonthDate(anchor, 1), to |-> MonthDate(anchor + months, 0),
     duration |-> "P1D", resourceIDs |-> <<"r1">>]

\* The answers of the server to the getDates of fetchAvailability.
VillaDatesResponses == props.getDates

VillaTimesReq(v) ==
    [from |-> v.startDate, to |-> endBoundary(v), days |-> selectedDays(v),
     target |-> fmt(v.startDate), latest |-> TRUE]

\* What the server may answer to getTimes: no slot for the resource, or a
\* slot with a price that starts on the first day of the stay, or only one
\* that starts a day later.
VillaTimesResponses(req) ==
    LET slot(day) == [startTime |-> day * DayMs + 15 * HourMs,
                      price |-> [amount |-> 100 * req.days, currency |-> "EUR"]]
    IN  { <<>>, <<slot(req.from)>>, <<slot(req.from + 1)>> }

\* The slot fetchPriceAndSlot takes from the response: the first that
\* starts on the target date, else the first.
chosenSlot(slots, target) ==
    LET onTarget == {i \in 1..Len(slots) : slots[i].startTime \div DayMs = target}
    IN  IF onTarget # {}
        THEN <<slots[CHOOSE i \in onTarget : \A j \in onTarget : i <= j]>>
        ELSE IF Len(slots) > 0 THEN <<slots[1]>>
        ELSE <<>>

\* The effect on [startDate, endBoundary, fetchPriceAndSlot], for the state
\* v the step leaves: fetchPriceAndSlot up to its await.
VillaPriceEffect(v, reqs, outcome) ==
    LET key == [start |-> fmt(v.startDate), days |-> selectedDays(v)]
    IN  IF /\ v.startDate # NoDate /\ endBoundary(v) # NoDate
           /\ isSpanAvailable(availableDates, v.startDate, endBoundary(v))
           /\ ~(v.lastPriceKey = key /\ v.price # NullObject
                /\ v.slotStartISO # NoDate)
        THEN /\ Len(reqs) < MaxInFlight
             /\ villa' = [v EXCEPT !.lastPriceKey = key, !.priceLoading = TRUE,
                                   !.slotStartISO = NoDate, !.price = NullObject]
             /\ timesReqs' = IssueTimes(reqs, VillaTimesReq(v))
             /\ issued' = Issued("pending", <<>>)
        ELSE /\ villa' = v
             /\ timesReqs' = reqs
             /\ issued' = outcome

\* The selection handlers clear the price, the slot and the price key.
Cleared(v) ==
    [v EXCEPT !.price = NullObject, !.slotStartISO = NoDate,
              !.lastPriceKey = NullObject]

\* handleWeekSelect, were a click on the only selected week to clear the
\* start of the stay and keep its end.
handleWeekSelectKeepsEnd(v, weekStart, weekEnd) ==
    IF v.startDate = NoDate \/ v.endDate = NoDate
    THEN Cleared([v EXCEPT !.startDate = weekStart, !.endDate = weekEnd])
    ELSE IF weekStart >= v.startDate /\ weekEnd <= v.endDate
    THEN IF v.startDate = weekStart /\ v.endDate = weekEnd
         THEN Cleared([v EXCEPT !.startDate = NoDate])
         ELSE IF v.startDate = weekStart
         THEN Cleared([v EXCEPT !.startDate = weekEnd])
         ELSE IF v.endDate = weekEnd
         THEN Cleared([v EXCEPT !.endDate = weekStart])
         ELSE Cleared([v EXCEPT !.startDate = NoDate, !.endDate = NoDate])
    ELSE IF weekStart = v.endDate \/ weekEnd = v.startDate
    THEN Cleared([v EXCEPT
             !.startDate = IF weekStart < v.startDate THEN weekStart ELSE @,
             !.endDate = IF weekEnd > v.endDate THEN weekEnd ELSE @])
    ELSE Cleared([v EXCEPT !.startDate = weekStart, !.endDate = weekEnd])

\* handleWeekSelect
handleWeekSelect(v, weekStart, weekEnd) ==
    IF v.startDate = NoDate \/ v.endDate = NoDate
    THEN Cleared([v EXCEPT !.startDate = weekStart, !.endDate = weekEnd])
    ELSE IF weekStart >= v.startDate /\ weekEnd <= v.endDate
    THEN IF v.startDate = weekStart /\ v.endDate = weekEnd
         THEN Cleared([v EXCEPT !.startDate = NoDate, !.endDate = NoDate])
         ELSE IF v.startDate = weekStart
         THEN Cleared([v EXCEPT !.startDate = weekEnd])
         ELSE IF v.endDate = weekEnd
         THEN Cleared([v EXCEPT !.endDate = weekStart])
         ELSE Cleared([v EXCEPT !.startDate = NoDate, !.endDate = NoDate])
    ELSE IF weekStart = v.endDate \/ weekEnd = v.startDate
    THEN Cleared([v EXCEPT
             !.startDate = IF weekStart < v.startDate THEN weekStart ELSE @,
             !.endDate = IF weekEnd > v.endDate THEN weekEnd ELSE @])
    ELSE Cleared([v EXCEPT !.startDate = weekStart, !.endDate = weekEnd])

\* The render guard: the widget shows only texts.missingConfig.
VillaShown == props.configured /\ OnPage

\* RowCard.onSelect of the row that starts on `start`.
VillaRowSelect(start) ==
    /\ props.widget = "villa" /\ VillaShown
    /\ currentStep = "list"
    /\ start \in RowStarts
    /\ LET end == addDays(start, IF props.lengthMode = "weeks" THEN 7
                                 ELSE selectedDays(villa))
           weekStartsInPast == props.lengthMode = "weeks" /\ start < 1
       IN  /\ isSpanAvailable(availableDates, start, end)
           /\ ~weekStartsInPast
           /\ VillaPriceEffect(
                 IF props.lengthMode = "weeks"
                 THEN handleWeekSelect(villa, start, end)
                 ELSE Cleared([villa EXCEPT !.startDate = start,
                                            !.endDate = NoDate]),
                 timesReqs, Issued("none", <<>>))
    /\ error' = NULL
    /\ UNCHANGED <<props, currentStep, loading, submiting, serviceLoaded,
                   serviceReq, datesReqs, bookingReqs, availableDates, outVars,
                   termsAccepted, formVars, notVilla>>

\* A click on a row, as one of the changes the visitor makes.
VillaOnSelect(start) ==
    /\ changes < MaxChanges
    /\ changes' = changes + 1
    /\ VillaRowSelect(start)

\* The length buttons of the days mode: setDays(d).
VillaSetDays(d) ==
    /\ props.widget = "villa" /\ VillaShown
    /\ currentStep = "list"
    /\ props.lengthMode = "days" /\ FixedLengthDays = 0
    /\ d \in dayMultiples
    /\ d # villa.days
    /\ changes < MaxChanges
    /\ changes' = changes + 1
    /\ VillaPriceEffect(
          IF villa.startDate # NoDate THEN Cleared([villa EXCEPT !.days = d])
          ELSE [villa EXCEPT !.days = d],
          timesReqs, Issued("none", <<>>))
    /\ UNCHANGED <<props, currentStep, loading, submiting, error,
                   serviceLoaded, serviceReq, datesReqs, bookingReqs,
                   availableDates, outVars, termsAccepted, formVars, notVilla>>

\* The month buttons: setCurrentMonth, with the effect that calls
\* fetchAvailability.
VillaSetCurrentMonth(direction) ==
    /\ props.widget = "villa" /\ VillaShown
    /\ currentStep = "list"
    /\ changes < MaxChanges
    /\ changes' = changes + 1
    /\ Len(datesReqs) < MaxInFlight
    /\ loading' = TRUE
    /\ error' = NULL
    /\ villa' = [villa EXCEPT !.currentMonth = @ + direction]
    /\ datesReqs' = Append(datesReqs,
           VillaDatesReq(villa.currentMonth + direction, VisibleMonths))
    /\ UNCHANGED <<props, currentStep, submiting, serviceLoaded, serviceReq,
                   timesReqs, bookingReqs, availableDates, outVars,
                   termsAccepted, formVars, notVilla, issued>>

\* fetchAvailability, after services.getDates resolved.
VillaFetchAvailabilityResolve(i, dates) ==
    /\ props.widget = "villa" /\ OnPage
    /\ i \in 1..Len(datesReqs)
    /\ dates \in VillaDatesResponses
    /\ availableDates' = uniqueDates(dates)
    /\ loading' = FALSE
    /\ datesReqs' = RemoveAt(datesReqs, i)
    /\ UNCHANGED <<props, currentStep, submiting, error, serviceLoaded,
                   serviceReq, timesReqs, bookingReqs, outVars, termsAccepted,
                   formVars, widgetVars, issued, changes>>

\* fetchAvailability, after services.getDates rejected.
VillaFetchAvailabilityReject(i) ==
    /\ props.widget = "villa" /\ OnPage
    /\ i \in 1..Len(datesReqs)
    /\ error' = "availabilityError"
    /\ loading' = FALSE
    /\ datesReqs' = RemoveAt(datesReqs, i)
    /\ UNCHANGED <<props, currentStep, submiting, serviceLoaded, serviceReq,
                   timesReqs, bookingReqs, availableDates, outVars,
                   termsAccepted, formVars, widgetVars, issued, changes>>

\* fetchPriceAndSlot, after services.getTimes resolved; a change of price
\* or slotStartISO runs the effect again.
VillaFetchPriceAndSlotResolve(i, slots) ==
    /\ props.widget = "villa" /\ OnPage
    /\ i \in 1..Len(timesReqs)
    /\ slots \in VillaTimesResponses(timesReqs[i])
    /\ LET chosen == chosenSlot(slots, timesReqs[i].target)
           v == IF chosen = <<>> THEN [villa EXCEPT !.priceLoading = FALSE]
                ELSE [villa EXCEPT !.priceLoading = FALSE,
                                   !.price = chosen[1].price,
                                   !.slotStartISO = chosen[1].startTime]
           outcome == OutcomeOf(timesReqs[i], Issued("done", chosen))
       IN  IF v.price # villa.price \/ v.slotStartISO # villa.slotStartISO
           THEN VillaPriceEffect(v, RemoveAt(timesReqs, i), outcome)
           ELSE /\ villa' = v
                /\ timesReqs' = RemoveAt(timesReqs, i)
                /\ issued' = outcome
    /\ UNCHANGED <<props, currentStep, loading, submiting, error,
                   serviceLoaded, serviceReq, datesReqs, bookingReqs,
                   availableDates, outVars, termsAccepted, formVars, changes,
                   notVilla>>

\* fetchPriceAndSlot, after services.getTimes rejected.
VillaFetchPriceAndSlotReject(i) ==
    /\ props.widget = "villa" /\ OnPage
    /\ i \in 1..Len(timesReqs)
    /\ villa' = [villa EXCEPT !.priceLoading = FALSE]
    /\ issued' = OutcomeOf(timesReqs[i], Issued("failed", <<>>))
    /\ timesReqs' = RemoveAt(timesReqs, i)
    /\ UNCHANGED <<props, currentStep, loading, submiting, error,
                   serviceLoaded, serviceReq, datesReqs, bookingReqs,
                   availableDates, outVars, termsAccepted, formVars, changes,
                   notVilla>>

\* ------------------------------------------------------ villa: the steps
\* The Continue button: onContinue.
VillaOnContinue ==
    /\ props.widget = "villa" /\ VillaShown
    /\ currentStep = "list"
    /\ canContinue(villa, availableDates) /\ ~loading
    /\ currentStep' = "form"
    /\ UNCHANGED <<props, loading, submiting, error, serviceLoaded,
                   serviceReq, timesReqs, datesReqs, bookingReqs,
                   availableDates, outVars, termsAccepted, formVars,
                   widgetVars, issued, changes>>

\* The inputs of the modal form: setClient.
VillaSetClient(key, value) ==
    /\ props.widget = "villa" /\ VillaShown
    /\ currentStep = "form"
    /\ key \in {"firstName", "email"}
    /\ value \in Typed(key) \ {""}
    /\ villa.client[key] # value
    /\ villa' = [villa EXCEPT !.client[key] = value]
    /\ UNCHANGED <<props, currentStep, loading, submiting, error,
                   serviceLoaded, serviceReq, timesReqs, datesReqs,
                   bookingReqs, availableDates, outVars, termsAccepted,
                   formVars, issued, changes, notVilla>>

\* AcceptTerms.onAcceptChange (the checkbox is part of the modal form).
VillaAcceptTerms ==
    /\ props.widget = "villa" /\ VillaShown
    /\ currentStep = "form" /\ props.showTerms
    /\ termsAccepted' = ~termsAccepted
    /\ UNCHANGED <<props, currentStep, loading, submiting, error,
                   serviceLoaded, serviceReq, timesReqs, datesReqs,
                   bookingReqs, availableDates, outVars, formVars, widgetVars,
                   issued, changes>>

\* The close button of the modal (button) or a click on its backdrop.
VillaCloseModal(button) ==
    /\ props.widget = "villa" /\ VillaShown
    /\ currentStep = "form"
    /\ changes < MaxChanges
    /\ changes' = changes + 1
    /\ currentStep' = "list"
    /\ termsAccepted' = IF button /\ props.showTerms THEN FALSE
                        ELSE termsAccepted
    /\ UNCHANGED <<props, loading, submiting, error, serviceLoaded,
                   serviceReq, timesReqs, datesReqs, bookingReqs,
                   availableDates, outVars, formVars, widgetVars, issued>>

\* What onBook refuses with, NULL when it goes on to the request
\* (firstNameRequired and emailRequired are on, lastNameRequired is off).
VillaBookRefusal ==
    IF villa.client.firstName = "" THEN "firstNameRequired"
    ELSE IF villa.client.email = "" THEN "emailRequired"
    ELSE IF villa.slotStartISO = NoDate THEN "noSlotFound"
    ELSE IF props.showTerms /\ ~termsAccepted
    THEN "Please accept the terms and conditions"
    ELSE NULL

\* The Book button: onBook up to its await.
VillaOnBook ==
    /\ props.widget = "villa" /\ VillaShown
    /\ currentStep = "form"
    /\ ~(props.showTerms /\ ~termsAccepted)
    /\ IF villa.startDate = NoDate \/ endBoundary(villa) = NoDate
       THEN UNCHANGED <<error, bookingReqs>>
       ELSE IF VillaBookRefusal # NULL
       THEN /\ error' = VillaBookRefusal
            /\ UNCHANGED bookingReqs
       ELSE /\ Len(bookingReqs) < MaxInFlight
            /\ error' = NULL
            /\ bookingReqs' = Append(bookingReqs,
                   [resourceID |-> "r1", startTime |-> villa.slotStartISO,
                    days |-> selectedDays(villa), client |-> villa.client,
                    fromStep |-> currentStep])
    /\ UNCHANGED <<props, currentStep, loading, submiting, serviceLoaded,
                   serviceReq, timesReqs, datesReqs, availableDates, outVars,
                   termsAccepted, formVars, widgetVars, issued, changes>>

\* The route onBook opens for a response (NULL: none, it sets the step).
VillaRouteFor(response) ==
    LET rid(path) == IF getRouteId(props.router, path) # ""
                     THEN getRouteId(props.router, path)
                     ELSE getRouteId(props.router, "/")
    IN  IF props.routes = NullObject THEN NULL
        ELSE IF /\ response.status = "confirmed" /\ props.routes.confirmed # ""
                /\ rid(props.routes.confirmed) # ""
        THEN rid(props.routes.confirmed)
        ELSE IF /\ response.status = "pending" /\ props.routes.pending # ""
                /\ rid(props.routes.pending) # ""
        THEN rid(props.routes.pending)
        ELSE NULL

\* onBook, after bookings.request resolved.
VillaOnBookResolve(response) ==
    /\ props.widget = "villa" /\ OnPage
    /\ bookingReqs # <<>>
    /\ response \in BookingResponses
    /\ bookingReqs' = Tail(bookingReqs)
    /\ IF HasPaymentURL(response)
       THEN /\ location' = response.paymentURL
            /\ UNCHANGED <<currentStep, navigated>>
       ELSE IF VillaRouteFor(response) # NULL
       THEN /\ navigated' = VillaRouteFor(response)
            /\ UNCHANGED <<currentStep, location>>
       ELSE /\ currentStep' = "success"
            /\ UNCHANGED <<location, navigated>>
    /\ UNCHANGED <<props, loading, submiting, error, serviceLoaded,
                   serviceReq, timesReqs, datesReqs, availableDates,
                   termsAccepted, formVars, widgetVars, issued, changes>>

\* onBook, after bookings.request rejected.
VillaOnBookReject ==
    /\ props.widget = "villa" /\ OnPage
    /\ bookingReqs # <<>>
    /\ bookingReqs' = Tail(bookingReqs)
    /\ error' = "bookingFailed"
    /\ UNCHANGED <<props, currentStep, loading, submiting, serviceLoaded,
                   serviceReq, timesReqs, datesReqs, availableDates, outVars,
                   termsAccepted, formVars, widgetVars, issued, changes>>

\* ------------------------------------------------------- specification
InitRental ==
    [startDate |-> NoDate, endDate |-> NoDate, startTime |-> 9, endTime |-> 9,
     selectionMode |-> "start", selectedSlot |-> NullObject,
     serviceTimezone |-> "", currentMonth |-> 0]
InitGroup ==
    [events |-> <<>>, selectedEvent |-> NullObject,
     currentParticipants |-> Participants.min]
InitVilla ==
    [startDate |-> NoDate, endDate |-> NoDate,
     days |-> IF props.lengthMode = "days" /\ FixedLengthDays > 0
              THEN FixedLengthDays ELSE BaseDays,
     price |-> NullObject, priceLoading |-> FALSE,
     lastPriceKey |-> NullObject, slotStartISO |-> NoDate,
     client |-> [firstName |-> "", lastName |-> "", email |-> ""],
     currentMonth |-> 0]

InitFlex ==
    [selectedDate |-> 1, currentDuration |-> props.durations.min,
     pickerDuration |-> props.durations.min, selectedResourceID |-> NULL,
     resources |-> <<>>, timeSlots |-> <<>>, selectedTime |-> NullObject]

\* The state after the first render and its effects: loadServiceData has
\* called services.get (unless companyID or serviceID is empty); the villa
\* widget has called fetchAvailability.
Init ==
    /\ props \in PropsSet
    /\ currentStep = SelectionStep
    /\ loading = (props.configured \/ props.widget = "villa")
    /\ serviceReq = (props.configured /\ props.widget # "villa")
    /\ submiting = FALSE
    /\ error = NULL
    /\ serviceLoaded = FALSE
    /\ timesReqs = <<>>
    /\ datesReqs = IF props.widget = "villa"
                   THEN <<VillaDatesReq(0, VisibleMonths)>> ELSE <<>>
    /\ bookingReqs = <<>>
    /\ availableDates = <<>>
    /\ location = "page"
    /\ navigated = NULL
    /\ termsAccepted = FALSE
    /\ formValues = EmptyForm(props)
    /\ formErrors = << >>
    /\ formData = << >>
    /\ clientData = NullObject
    /\ flex = InitFlex
    /\ rental = InitRental
    /\ group = InitGroup
    /\ villa = InitVilla
    /\ issued = Issued("none", <<>>)
    /\ getTimesResponse = <<>>
    /\ changes = 0

Next ==
    \/ \E type \in {"flexible", "fixed"} : FlexLoadServiceResolve(type)
    \/ LoadServiceReject
    \/ \E date \in Days : FlexHandleDateClick(date)
    \/ \E date \in Days : FlexHandleNativeDateChange(date)
    \/ FlexGoToNextAvailableDate
    \/ \E up \in BOOLEAN : FlexHandleDurationChange(up)
    \/ \E r \in Range(ServiceResources) \cup {""} : FlexHandleSelectedResource(r)
    \/ \E i \in 1..MaxInFlight + 1 : FlexHandleSelectedTime(i)
    \/ /\ props.widget = "flexible"
       /\ \E i \in 1..Len(timesReqs) :
             \E times \in FlexTimesResponses(timesReqs[i]) :
                FlexOnDateChangeResolve(i, times)
    \/ \E i \in 1..MaxInFlight : FlexOnDateChangeReject(i)
    \/ \E i \in 1..MaxInFlight, dates \in DatesResponses :
          FlexFetchAvailableDatesResolve(i, dates)
    \/ \E i \in 1..MaxInFlight : FlexFetchAvailableDatesReject(i)
    \/ FlexAcceptTerms
    \/ RentalLoadServiceResolve
    \/ \E date \in Days : RentalHandleDateClick(date)
    \/ \E type \in {"start", "end"}, time \in TimeOptions :
          RentalHandleTimeChange(type, time)
    \/ \E direction \in {-1, 1} : RentalNavigateMonth(direction)
    \/ /\ props.widget = "rental"
       /\ \E i \in 1..Len(timesReqs) :
             \E times \in RentalTimesResponses(timesReqs[i]) :
                RentalCheckSlotResolve(i, times)
    \/ \E i \in 1..MaxInFlight : RentalCheckSlotReject(i)
    \/ \E i \in 1..MaxInFlight, dates \in DatesResponses :
          RentalFetchAvailableDatesResolve(i, dates)
    \/ \E i \in 1..MaxInFlight : RentalFetchAvailableDatesReject(i)
    \/ RentalProceedToNextStep
    \/ RentalProceedToPreviousStep
    \/ GroupLoadServiceResolve
    \/ \E increment \in BOOLEAN : GroupHandleParticipantsChange(increment)
    \/ \E i \in 1..MaxDay : GroupOnEventSelect(i)
    \/ /\ props.widget = "group"
       /\ \E i \in 1..Len(timesReqs) :
             \E times \in GroupTimesResponses(timesReqs[i]) :
                GroupLoadEventsResolve(i, times)
    \/ \E i \in 1..MaxInFlight : GroupLoadEventsReject(i)
    \/ GroupProceedToNextStep
    \/ GroupProceedToPreviousStep
    \/ GroupAcceptTerms
    \/ \E start \in RowStarts : VillaOnSelect(start)
    \/ \E d \in dayMultiples : VillaSetDays(d)
    \/ \E direction \in {-1, 1} : VillaSetCurrentMonth(direction)
    \/ \E i \in 1..MaxInFlight, dates \in VillaDatesResponses :
          VillaFetchAvailabilityResolve(i, dates)
    \/ \E i \in 1..MaxInFlight : VillaFetchAvailabilityReject(i)
    \/ /\ props.widget = "villa"
       /\ \E i \in 1..Len(timesReqs) :
             \E slots \in VillaTimesResponses(timesReqs[i]) :
                VillaFetchPriceAndSlotResolve(i, slots)
    \/ \E i \in 1..MaxInFlight : VillaFetchPriceAndSlotReject(i)
    \/ VillaOnContinue
    \/ \E key \in {"firstName", "email"}, value \in {"Ann", "a@b.c"} :
          VillaSetClient(key, value)
    \/ VillaAcceptTerms
    \/ \E button \in BOOLEAN : VillaCloseModal(button)
    \/ VillaOnBook
    \/ \E response \in BookingResponses : VillaOnBookResolve(response)
    \/ VillaOnBookReject
    \/ FlexProceedToNextStep
    \/ FlexProceedToPreviousStep
    \/ \E key \in GuestLabels \cup {"notes"}, value \in {"Ann", "a@b.c", "", "42", "abc"} :
          HandleInputChange(key, value)
    \/ \E response \in BookingResponses : MakeBookingResolve(response)
    \/ MakeBookingReject
    \/ LoginRedirect

Spec == Init /\ [][Next]_vars

\* ------------------------------------------- the rental matcher by itself
\* checkSlotAvailability's continuation applied to answers drawn from sorted
\* slot lists, for every pairing of browser and service time zone.  The
\* widget has its service loaded, the range day 1 09:00 - day 2 09:00 chosen
\* and the getTimes request for it in flight.
MatcherProps ==
    {[Props("rental", TRUE, FALSE, TRUE, <<>>, FALSE, FALSE)
         EXCEPT !.browserTimeZone = b, !.serviceTimeZone = z] :
       b \in {"UTC", "UTC+2", "UTC-5"}, z \in {"", "UTC", "UTC+2"}}

\* Slot starts around 07:00Z and 09:00Z of day 1.
SlotStarts ==
    {DayMs + h * HourMs + d : h \in {7, 9},
                              d \in {0 - MinuteMs, 0 - 30000, 0, 30000}}

\* The slot lists of one resource: sorted by start, MaxSlots at most.
SortedSlotLists ==
    {[i \in DOMAIN starts |-> Slot(starts[i], DayMs)] :
       starts \in {t \in UNION {[1..n -> SlotStarts] : n \in 0..MaxSlots} :
                     \A i, j \in DOMAIN t : i < j => t[i] < t[j]}}

\* response.times: the resources in key order, each with its slot list.
MatcherResponses ==
    {<<[resourceID |-> "r1", slots |-> s1],
       [resourceID |-> "r2", slots |-> s2]>> :
       s1 \in SortedSlotLists, s2 \in SortedSlotLists}

InitMatcher ==
    /\ props \in MatcherProps
    /\ getTimesResponse \in MatcherResponses
    /\ currentStep = "DateRange"
    /\ loading = FALSE
    /\ serviceReq = FALSE
    /\ submiting = FALSE
    /\ error = NULL
    /\ serviceLoaded = TRUE
    /\ LET timeZone == IF props.serviceTimeZone # "" THEN props.serviceTimeZone
                       ELSE props.browserTimeZone
           dateRange == [InitRental EXCEPT !.startDate = 1, !.endDate = 2,
                                           !.serviceTimezone = timeZone]
       IN  /\ rental = dateRange
           /\ timesReqs = <<RentalTimesReq(dateRange, timeZone)>>
    /\ datesReqs = <<>>
    /\ bookingReqs = <<>>
    /\ availableDates = <<1, 2>>
    /\ location = "page"
    /\ navigated = NULL
    /\ termsAccepted = FALSE
    /\ formValues = EmptyForm(props)
    /\ formErrors = << >>
    /\ formData = << >>
    /\ clientData = NullObject
    /\ flex = InitFlex
    /\ group = InitGroup
    /\ villa = InitVilla
    /\ issued = Issued("pending", <<>>)
    /\ changes = 0

\* The answer arrives.
NextMatcher ==
    /\ timesReqs # <<>>
    /\ RentalCheckSlotApply(1, getTimesResponse)

SpecMatcher == InitMatcher /\ [][NextMatcher]_vars

\* -------------------------------------------- the form validation by itself
\* validateForm applied to forms drawn from every field type, required or
\* not, with and without an errorText, and to every value such a field can
\* hold.  The widget is on its Form step with a slot chosen; the step is the
\* click on the action button.
FormFieldsOf(label, errorTexts) ==
    [labelText : {label},
     type : {"text", "url", "number", "phone", "multiselect"},
     required : BOOLEAN, errorText : errorTexts]

\* props.customForm.fields: one field, or two.
ValidatedFieldLists ==
    {<<f>> : f \in FormFieldsOf("notes", {"", "Notes are required"})}
    \cup {<<f, g>> : f \in FormFieldsOf("notes", {"", "Notes are required"}),
                     g \in FormFieldsOf("site", {""})}

ValidatedProps ==
    {Props("flexible", TRUE, FALSE, TRUE, fields, FALSE, FALSE) :
        fields \in ValidatedFieldLists}
    \cup {Props("flexible", TRUE, TRUE, FALSE, <<f>>, FALSE, FALSE) :
            f \in FormFieldsOf("notes", {""})}

\* What a field of the form can hold.
ValuesOf(field) ==
    IF field.type = "multiselect" THEN {NULL, EmptyList, OneOption}
    ELSE IF field.labelText \in GuestLabels THEN {NULL, "", "Ann"}
    ELSE {NULL, "", " ", "42", "abc", "https://a.b"}

InitValidate ==
    /\ props \in ValidatedProps
    /\ formValues \in [Labels(props) -> {NULL, "", " ", "42", "abc",
                                         "https://a.b", "Ann", EmptyList,
                                         OneOption}]
    /\ \A f \in Range(allFields(props)) : formValues[f.labelText] \in ValuesOf(f)
    /\ formErrors = << >>
    /\ formData = MetaOf(formValues)
    /\ clientData = ClientOf(formValues)
    /\ currentStep = "Form"
    /\ loading = FALSE
    /\ serviceReq = FALSE
    /\ submiting = FALSE
    /\ error = NULL
    /\ serviceLoaded = TRUE
    /\ timesReqs = <<>>
    /\ datesReqs = <<>>
    /\ bookingReqs = <<>>
    /\ availableDates = <<1>>
    /\ location = "page"
    /\ navigated = NULL
    /\ termsAccepted = FALSE
    /\ LET slots == formatSlots(<<[resourceID |-> "r1",
                                   slots |-> <<Slot(DayMs + 10 * HourMs, HourMs)>>]>>,
                                OffsetOf(props.browserTimeZone))
       IN  /\ flex = [InitFlex EXCEPT !.resources = ServiceResources,
                                      !.timeSlots = slots,
                                      !.selectedTime = slots[1]]
           /\ issued = Issued("done", slots)
    /\ rental = InitRental
    /\ group = InitGroup
    /\ villa = InitVilla
    /\ getTimesResponse = <<>>
    /\ changes = 0

NextValidate == FlexProceedToNextStep

SpecValidate == InitValidate /\ [][NextValidate]_vars

\* ------------------------------------------- the durations by themselves
\* props.durations of a flexible widget: hours and minutes of min, step and
\* max (a max of 0h00 is no upper bound).
DurationSettings ==
    [min  : {[days |-> 0, hours |-> h, minutes |-> m] :
                <<h, m>> \in {<<0, 30>>, <<1, 0>>, <<1, 45>>, <<23, 30>>}},
     step : {[days |-> 0, hours |-> h, minutes |-> m] :
                <<h, m>> \in {<<0, 15>>, <<0, 45>>, <<1, 0>>}},
     max  : {[days |-> 0, hours |-> h, minutes |-> m] :
                <<h, m>> \in {<<0, 0>>, <<2, 0>>, <<2, 30>>}}]

\* A client who books directly: the flexible widget with any duration
\* settings, the rental widget.
DurationProps ==
    {[Props("flexible", TRUE, FALSE, TRUE, <<>>, FALSE, FALSE)
         EXCEPT !.durations = d] : d \in DurationSettings}
    \cup {Props("rental", TRUE, FALSE, TRUE, <<>>, FALSE, FALSE)}

\* The widget after the service was loaded and the first answers arrived:
\* every day is available, the slots of the selected day are shown and the
\* first one is selected.
InitDurations ==
    /\ props \in DurationProps
    /\ currentStep = SelectionStep
    /\ loading = FALSE
    /\ serviceReq = FALSE
    /\ submiting = FALSE
    /\ error = NULL
    /\ serviceLoaded = TRUE
    /\ timesReqs = <<>>
    /\ datesReqs = <<>>
    /\ bookingReqs = <<>>
    /\ availableDates = [d \in Days |-> d]
    /\ location = "page"
    /\ navigated = NULL
    /\ termsAccepted = FALSE
    /\ formValues = EmptyForm(props)
    /\ formErrors = << >>
    /\ formData = << >>
    /\ clientData = NullObject
    /\ LET slots == formatSlots(
                        <<[resourceID |-> "r1",
                           slots |-> <<Slot(DayMs + 10 * HourMs,
                                            DurationMs(props.durations.min))>>]>>,
                        OffsetOf(props.browserTimeZone))
       IN  IF props.widget = "flexible"
           THEN /\ flex = [InitFlex EXCEPT !.resources = ServiceResources,
                                           !.timeSlots = slots,
                                           !.selectedTime = slots[1]]
                /\ issued = Issued("done", slots)
           ELSE /\ flex = InitFlex
                /\ issued = Issued("none", <<>>)
    /\ rental = [InitRental EXCEPT !.serviceTimezone = props.serviceTimeZone]
    /\ group = InitGroup
    /\ villa = InitVilla
    /\ getTimesResponse = <<>>
    /\ changes = 0

NextDurations ==
    \/ \E up \in BOOLEAN : FlexHandleDurationChange(up)
    \/ /\ props.widget = "flexible"
       /\ \E i \in 1..Len(timesReqs) :
             \E times \in FlexTimesResponses(timesReqs[i]) :
                FlexOnDateChangeResolve(i, times)
    \/ \E i \in 1..MaxInFlight + 1 : FlexHandleSelectedTime(i)
    \/ FlexProceedToNextStep
    \/ \E date \in Days : RentalHandleDateClick(date)
    \/ \E type \in {"start", "end"}, time \in TimeOptions :
          RentalHandleTimeChange(type, time)
    \/ /\ props.widget = "rental"
       /\ \E i \in 1..Len(timesReqs) :
             \E times \in RentalTimesResponses(timesReqs[i]) :
                RentalCheckSlotResolve(i, times)
    \/ RentalProceedToNextStep

SpecDurations == InitDurations /\ [][NextDurations]_vars

\* ---------------------------------------------- the villa stay by itself
\* The weekdays the list is configured with and opened on (0 is Sunday).
StayWeekdays == {0, 3, 6}

\* daysBaseLength, daysMaxTotal and fixedLengthDays of the days mode: the
\* defaults with a maximum of two base lengths, a maximum that is no
\* multiple of the base, a maximum below the base, and a fixed length.
StayLengths == {<<7, 14, 0>>, <<2, 5, 0>>, <<3, 2, 0>>, <<2, 4, 6>>}

\* The villa widget that lists weeks, for every start weekday and weekday of
\* today, and the one that lists days, for every setting of the lengths.
StayProps ==
    {[Props("villa", TRUE, TRUE, FALSE, <<>>, FALSE, FALSE)
         EXCEPT !.weeksStartRule = rule, !.todayWeekday = today] :
        rule \in StayWeekdays, today \in StayWeekdays}
    \cup {[Props("villa", TRUE, TRUE, FALSE, <<>>, FALSE, FALSE)
              EXCEPT !.lengthMode = "days", !.daysBaseLength = l[1],
                     !.daysMaxTotal = l[2], !.fixedLengthDays = l[3]] :
             l \in StayLengths}

\* The answers of fetchAvailability the list is drawn with: every day from
\* today on, or every day but one of the third week.
StayDates ==
    LET all == [d \in 1..(3 * 7 + 4) |-> d]
    IN  {all, SelectSeq(all, LAMBDA d : d # 2 * 7 + 3)}

\* The widget after fetchAvailability resolved, the visitor's name and
\* e-mail known.
InitStay ==
    /\ props \in StayProps
    /\ currentStep = SelectionStep
    /\ loading = FALSE
    /\ serviceReq = FALSE
    /\ submiting = FALSE
    /\ error = NULL
    /\ serviceLoaded = FALSE
    /\ timesReqs = <<>>
    /\ datesReqs = <<>>
    /\ bookingReqs = <<>>
    /\ availableDates \in StayDates
    /\ location = "page"
    /\ navigated = NULL
    /\ termsAccepted = FALSE
    /\ formValues = EmptyForm(props)
    /\ formErrors = << >>
    /\ formData = << >>
    /\ clientData = NullObject
    /\ flex = InitFlex
    /\ rental = InitRental
    /\ group = InitGroup
    /\ villa = [InitVilla EXCEPT !.client.firstName = "Ann",
                                 !.client.email = "a@b.c"]
    /\ issued = Issued("none", <<>>)
    /\ getTimesResponse = <<>>
    /\ changes = 0

NextStay ==
    \/ \E start \in RowStarts : VillaRowSelect(start) /\ UNCHANGED changes
    \/ \E d \in dayMultiples : VillaSetDays(d)
    \/ /\ props.widget = "villa"
       /\ \E i \in 1..Len(timesReqs) :
             \E slots \in VillaTimesResponses(timesReqs[i]) :
                VillaFetchPriceAndSlotResolve(i, slots)
    \/ \E i \in 1..MaxInFlight : VillaFetchPriceAndSlotReject(i)
    \/ VillaOnContinue
    \/ VillaOnBook

SpecStay == InitStay /\ [][NextStay]_vars

\* ------------------------------------------ the events list by itself
\* The start times of the events the answers are drawn from: day 1 at
\* 10:00 and 23:00 UTC, day 2 at 01:00 and 10:00 UTC.
EventStarts ==
    {DayMs + 10 * HourMs, DayMs + 23 * HourMs,
     2 * DayMs + HourMs, 2 * DayMs + 10 * HourMs}

\* The lists of slots of one resource: up to two of the events, in either
\* order.
EventSlotLists ==
    {<<>>} \cup {<<Slot(a, HourMs)>> : a \in EventStarts}
    \cup {<<Slot(a, HourMs), Slot(b, HourMs)>> :
             <<a, b>> \in {p \in EventStarts \X EventStarts : p[1] # p[2]}}

\* The answers of getTimes: the slots of two resources.
EventsResponses ==
    {<<[resourceID |-> "r1", slots |-> s1], [resourceID |-> "r2", slots |-> s2]>> :
        s1 \in EventSlotLists, s2 \in EventSlotLists}

\* The group widget of a client, in every time zone of the browser.
EventsProps ==
    {[Props("group", TRUE, FALSE, TRUE, <<>>, FALSE, FALSE)
         EXCEPT !.browserTimeZone = tz] : tz \in {"UTC", "UTC+2", "UTC-5"}}

\* The widget after the service was loaded: loadAvailableEvents waits for
\* the answer getTimesResponse, which the server gives to every request.
InitEvents ==
    /\ props \in EventsProps
    /\ currentStep = SelectionStep
    /\ loading = TRUE
    /\ serviceReq = FALSE
    /\ submiting = FALSE
    /\ error = NULL
    /\ serviceLoaded = TRUE
    /\ timesReqs = <<[spots |-> Participants.min]>>
    /\ datesReqs = <<>>
    /\ bookingReqs = <<>>
    /\ availableDates = <<>>
    /\ location = "page"
    /\ navigated = NULL
    /\ termsAccepted = FALSE
    /\ formValues = EmptyForm(props)
    /\ formErrors = << >>
    /\ formData = << >>
    /\ clientData = NullObject
    /\ flex = InitFlex
    /\ rental = InitRental
    /\ group = InitGroup
    /\ villa = InitVilla
    /\ issued = Issued("none", <<>>)
    /\ getTimesResponse \in EventsResponses
    /\ changes = 0

NextEvents ==
    \/ \E i \in 1..MaxInFlight : GroupLoadEventsDone(i, getTimesResponse)
    \/ \E i \in 1..MaxDay : GroupOnEventSelect(i)
    \/ \E increment \in BOOLEAN : GroupHandleParticipantsChange(increment)

SpecEvents == InitEvents /\ [][NextEvents]_vars

\* --------------------------------------------- the pickers by themselves
\* props.participants of a group widget.
ParticipantsSettings ==
    {[min |-> 1, max |-> 2], [min |-> 1, max |-> 1],
     [min |-> 2, max |-> 4], [min |-> 3, max |-> 4]}

\* A client's flexible widget with any duration settings, a client's group
\* widget with any participants settings.
PickerProps ==
    {[Props("flexible", TRUE, FALSE, TRUE, <<>>, FALSE, FALSE)
         EXCEPT !.durations = d] : d \in DurationSettings}
    \cup {[Props("group", TRUE, FALSE, TRUE, <<>>, FALSE, FALSE)
              EXCEPT !.participants = p] : p \in ParticipantsSettings}

\* The widget after the service was loaded and the first answers arrived:
\* the flexible widget shows the slots of the selected day, the group
\* widget an empty list of events.
InitPickers ==
    /\ props \in PickerProps
    /\ currentStep = SelectionStep
    /\ loading = FALSE
    /\ serviceReq = FALSE
    /\ submiting = FALSE
    /\ error = NULL
    /\ serviceLoaded = TRUE
    /\ timesReqs = <<>>
    /\ datesReqs = <<>>
    /\ bookingReqs = <<>>
    /\ availableDates = IF props.widget = "flexible" THEN [d \in Days |-> d]
                        ELSE <<>>
    /\ location = "page"
    /\ navigated = NULL
    /\ termsAccepted = FALSE
    /\ formValues = EmptyForm(props)
    /\ formErrors = << >>
    /\ formData = << >>
    /\ clientData = NullObject
    /\ LET slots == formatSlots(
                        <<[resourceID |-> "r1",
                           slots |-> <<Slot(DayMs + 10 * HourMs,
                                            DurationMs(props.durations.min))>>]>>,
                        OffsetOf(props.browserTimeZone))
       IN  IF props.widget = "flexible"
           THEN /\ flex = [InitFlex EXCEPT !.resources = ServiceResources,
                                           !.timeSlots = slots,
                                           !.selectedTime = slots[1]]
                /\ issued = Issued("done", slots)
           ELSE /\ flex = InitFlex
                /\ issued = Issued("none", <<>>)
    /\ rental = InitRental
    /\ group = InitGroup
    /\ villa = InitVilla
    /\ getTimesResponse = <<>>
    /\ changes = 0

NextPickers ==
    \/ \E up \in BOOLEAN : FlexHandleDurationChange(up)
    \/ /\ props.widget = "flexible"
       /\ \E i \in 1..Len(timesReqs) :
             \E times \in FlexTimesResponses(timesReqs[i]) :
                FlexOnDateChangeResolve(i, times)
    \/ /\ props.widget = "flexible"
       /\ \E i \in 1..Len(datesReqs) :
             \E dates \in DatesResponses :
                FlexFetchAvailableDatesResolve(i, dates)
    \/ \E increment \in BOOLEAN : GroupHandleParticipantsChange(increment)
    \/ /\ props.widget = "group"
       /\ \E i \in 1..Len(timesReqs) :
             \E times \in GroupTimesResponses(timesReqs[i]) :
                GroupLoadEventsResolve(i, times)

SpecPickers == InitPickers /\ [][NextPickers]_vars

\* --------------------------------------- the available dates by themselves
\* The days the answers to getDates are drawn from.
AnswerDays == 1..3

\* The list of dates of one resource: up to three dates, in any order,
\* repeated or not.
DateLists ==
    UNION {[1..n -> AnswerDays] : n \in 0..3}

\* The answers to getDates: the lists of one or of two resources.
DateAnswers ==
    {<<l>> : l \in DateLists} \cup {<<l1, l2>> : l1 \in DateLists, l2 \in DateLists}

\* A client's flexible and rental widget and the villa widget, with a
\* server that gives one of the answers.
DatesProps ==
    {[Props(widget, TRUE, widget = "villa", widget # "villa", <<>>, FALSE, FALSE)
         EXCEPT !.getDates = {answer}] :
        widget \in {"flexible", "rental", "villa"}, answer \in DateAnswers}

\* The widget after the service was loaded, its first getDates request in
\* flight.
InitDates ==
    /\ props \in DatesProps
    /\ currentStep = SelectionStep
    /\ loading = (props.widget = "villa")
    /\ serviceReq = FALSE
    /\ submiting = FALSE
    /\ error = NULL
    /\ serviceLoaded = (props.widget # "villa")
    /\ timesReqs = <<>>
    /\ datesReqs = CASE props.widget = "flexible"
                          -> <<FlexDatesReq(props.durations.min, NULL)>>
                     [] props.widget = "rental"
                          -> <<RentalDatesReq(0, props.serviceTimeZone)>>
                     [] OTHER -> <<VillaDatesReq(0, VisibleMonths)>>
    /\ bookingReqs = <<>>
    /\ availableDates = <<>>
    /\ location = "page"
    /\ navigated = NULL
    /\ termsAccepted = FALSE
    /\ formValues = EmptyForm(props)
    /\ formErrors = << >>
    /\ formData = << >>
    /\ clientData = NullObject
    /\ flex = [InitFlex EXCEPT !.resources = ServiceResources]
    /\ rental = [InitRental EXCEPT !.serviceTimezone = props.serviceTimeZone]
    /\ group = InitGroup
    /\ villa = InitVilla
    /\ issued = Issued("none", <<>>)
    /\ getTimesResponse = <<>>
    /\ changes = 0

NextDates ==
    \/ \E i \in 1..MaxInFlight, dates \in DatesResponses :
          FlexFetchAvailableDatesResolve(i, dates)
    \/ \E i \in 1..MaxInFlight, dates \in DatesResponses :
          RentalFetchAvailableDatesResolve(i, dates)
    \/ \E i \in 1..MaxInFlight, dates \in VillaDatesResponses :
          VillaFetchAvailabilityResolve(i, dates)

SpecDates == InitDates /\ [][NextDates]_vars

\* ------------------------------------------------------------- properties

\* C1: in flexible, rental and group, a booking response with a non-empty
\* paymentURL redirects the page to it and leaves currentStep as it was,
\* whatever the status; without a paymentURL, status 'confirmed' moves the
\* step to Success and status 'pending' moves it to Pending.
ResponseBranching ==
    [][\A response \in BookingResponses :
          MakeBookingResolve(response) =>
             IF response.paymentURL \notin {NULL, ""}
             THEN /\ location' = response.paymentURL
                  /\ currentStep' = currentStep
                  /\ navigated' = navigated
             ELSE /\ location' = location
                  /\ response.status = "confirmed" => currentStep' = "Success"
                  /\ response.status = "pending" => currentStep' = "Pending"]_vars

\* C1: a payment redirect has happened from the form, which is still the step.
ResponseBranchingWitness ==
    /\ props.widget \in {"flexible", "rental", "group"}
    /\ location = "https://pay"
    /\ currentStep = "Form"
    /\ ~submiting

\* A rejection of bookings.request is handled in this step.
BookingRejected == MakeBookingReject \/ VillaOnBookReject

\* A response or a rejection of some request is handled in this step.
Arrives ==
    \/ Len(timesReqs') < Len(timesReqs)
    \/ Len(datesReqs') < Len(datesReqs)
    \/ Len(bookingReqs') < Len(bookingReqs)
    \/ serviceReq /\ ~serviceReq'

\* C2 (as amended): when bookings.request rejects, in every widget the
\* handler sets a non-null error string, leaves the step as it is at that
\* moment (it does not move to Success, Pending or success) and neither
\* redirects nor navigates; and no response or rejection that arrives later
\* clears a message that is set: only a handler the user starts does.
RejectionRetainsError ==
    [][/\ BookingRejected =>
             /\ error' # NULL
             /\ currentStep' = currentStep
             /\ location' = location
             /\ navigated' = navigated
       /\ (Arrives /\ error # NULL) => error' # NULL]_vars

\* C2: the rejection message is shown on the Date step of a widget with a
\* form: the request was submitted from Form and rejected after Back.
RejectionRetainsErrorWitness ==
    /\ props.widget = "flexible"
    /\ NeedsForm
    /\ currentStep = "Date"
    /\ error = "Failed to request booking"
    /\ location = "page" /\ navigated = NULL

\* C2 (as stated): when bookings.request rejects, the step has the value it
\* had when the booking was submitted.
RejectionKeepsSubmissionStep ==
    [][BookingRejected => currentStep' = Head(bookingReqs).fromStep]_vars

\* A click on the action button of a step widget: proceedToNextStep.
ProceedToNextStep ==
    FlexProceedToNextStep \/ RentalProceedToNextStep \/ GroupProceedToNextStep

\* The labels of the form's fields whose current value fails validation.
FailingLabels ==
    {f.labelText : f \in {g \in Range(allFields(props)) :
                             validateField(g, formValues[g.labelText]) # NULL}}

\* C3: on the Form step a booking request is issued only by a click on which
\* every field passes validation; a click with a failing field issues no
\* request, fills the field -> message map with exactly the failing fields
\* and leaves the step at Form.
FormGatesBooking ==
    [][(props.widget \in {"flexible", "rental", "group"} /\ currentStep = "Form")
          => /\ Len(bookingReqs') > Len(bookingReqs)
                   => ProceedToNextStep /\ FailingLabels = {}
             /\ (ProceedToNextStep /\ FailingLabels # {})
                   => /\ bookingReqs' = bookingReqs
                      /\ DOMAIN formErrors' = FailingLabels
                      /\ \A l \in FailingLabels : formErrors'[l] # NULL
                      /\ currentStep' = "Form"
                      /\ ~submiting']_vars

\* C3: a click on Form was refused: messages are shown, nothing is in flight.
FormGatesBookingWitness ==
    /\ props.widget \in {"flexible", "rental", "group"}
    /\ currentStep = "Form"
    /\ DOMAIN formErrors # {}
    /\ FailingLabels # {}
    /\ bookingReqs = <<>>
    /\ ~submiting

\* C4: on the selection step (Date, DateRange, Events) a click on the action
\* button moves to Form exactly when guestMode is on or there is at least
\* one custom field, and then sends nothing; otherwise the widget never
\* enters Form and the click calls makeBooking, which sends the request.
FormOnlyWhenNeeded ==
    [][props.widget \in {"flexible", "rental", "group"}
          => /\ (ProceedToNextStep /\ currentStep = SelectionStep)
                   => IF props.guestMode \/ Len(props.customFields) >= 1
                      THEN /\ currentStep' = "Form"
                           /\ bookingReqs' = bookingReqs
                      ELSE /\ currentStep' = currentStep
                           /\ Len(bookingReqs') = Len(bookingReqs) + 1
                           /\ Last(bookingReqs').fromStep = SelectionStep
                           /\ submiting'
             /\ ~(props.guestMode \/ Len(props.customFields) >= 1)
                   => currentStep' # "Form"
             /\ (currentStep # "Form" /\ currentStep' = "Form")
                   => ProceedToNextStep]_vars

\* C4: a widget without guest mode and without custom fields has sent its
\* booking from the selection step.
FormOnlyWhenNeededWitness ==
    /\ props.widget \in {"flexible", "rental", "group"}
    /\ ~props.guestMode /\ props.customFields = <<>>
    /\ currentStep = SelectionStep
    /\ Len(bookingReqs) = 1
    /\ submiting

\* The changes of currentStep the step widgets allow.
StepChanges ==
    {<<SelectionStep, "Form">>, <<"Form", SelectionStep>>,
     <<SelectionStep, "Success">>, <<SelectionStep, "Pending">>,
     <<"Form", "Success">>, <<"Form", "Pending">>}

\* C5: in flexible, rental and group, currentStep changes only from the
\* selection step to Form, from Form back to the selection step (and only
\* proceedToPreviousStep on Form goes back), and from the selection step or
\* Form to Success or Pending; once it is Success or Pending it never
\* changes again.
StepMachine ==
    [][props.widget \in {"flexible", "rental", "group"}
          => /\ currentStep' # currentStep
                   => <<currentStep, currentStep'>> \in StepChanges
             /\ currentStep \in {"Success", "Pending"}
                   => currentStep' = currentStep
             /\ (currentStep' = SelectionStep /\ currentStep # SelectionStep)
                   => \/ FlexProceedToPreviousStep
                      \/ RentalProceedToPreviousStep
                      \/ GroupProceedToPreviousStep]_vars

\* C5: the widget reached Pending through its form and went to the route.
StepMachineWitness ==
    /\ props.widget \in {"flexible", "rental", "group"}
    /\ NeedsForm
    /\ currentStep = "Pending"
    /\ navigated = "wait"
    /\ bookingReqs = <<>>

\* The action button is rendered (not the login button, not an early view).
ActionButtonShown == OnPage /\ MainView /\ (isAuthorized \/ props.guestMode)

\* No slot is held: selectedSlot is null (rental), selectedTime is null
\* (flexible).
NoSlotHeld ==
    \/ props.widget = "rental" /\ rental.selectedSlot = NullObject
    \/ props.widget = "flexible" /\ flex.selectedTime = NullObject

\* C6 (as amended): while no slot is held no booking request is sent
\* (makeBooking returns before the request, on every step); on the
\* selection step the action button is disabled, and in rental it shows the
\* datesUnavailable text when the chosen range is valid (at least 24 h) and
\* the "Please select valid dates (minimum 24h)" text when it is not.
NoSlotNoBooking ==
    /\ [](NoSlotHeld /\ ActionButtonShown /\ currentStep = SelectionStep
            => IF props.widget = "rental"
               THEN /\ ~RentalIsButtonEnabled
                    /\ RentalGetButtonTitle =
                          IF isDurationValid(rental) THEN "datesUnavailable"
                          ELSE "Please select valid dates (minimum 24h)"
               ELSE ~FlexBookButtonEnabled)
    /\ [][NoSlotHeld => Len(bookingReqs') <= Len(bookingReqs)]_vars

\* C6: a valid range is chosen in rental, the answer held no matching slot,
\* and the disabled button shows the datesUnavailable text.
NoSlotNoBookingWitness ==
    /\ props.widget = "rental"
    /\ ActionButtonShown
    /\ currentStep = "DateRange"
    /\ isDurationValid(rental)
    /\ rental.selectedSlot = NullObject
    /\ timesReqs = <<>>
    /\ RentalGetButtonTitle = "datesUnavailable"

\* C6 (as stated): in rental, when selectedSlot is null the action button on
\* DateRange is disabled and shows the datesUnavailable text (looked at once
\* the service is loaded).
NoSlotShowsDatesUnavailable ==
    (props.widget = "rental" /\ ActionButtonShown /\ serviceLoaded
        /\ currentStep = "DateRange" /\ rental.selectedSlot = NullObject)
    => ~RentalIsButtonEnabled /\ RentalGetButtonTitle = "datesUnavailable"

\* C7 (as stated): once no getTimes request is in flight and the request
\* issued last has resolved, the state holds that request's result:
\* timeSlots in flexible, selectedSlot in rental, slotStartISO and price in
\* villa.
LatestAvailabilityWins ==
    (OnPage /\ timesReqs = <<>> /\ issued.state = "done")
    => CASE props.widget = "flexible" -> flex.timeSlots = issued.result
         [] props.widget = "rental" ->
               IF issued.result = <<>>
               THEN rental.selectedSlot = NullObject
               ELSE rental.selectedSlot = issued.result[1]
         [] props.widget = "villa" ->
               IF issued.result = <<>>
               THEN villa.slotStartISO = NoDate /\ villa.price = NullObject
               ELSE /\ villa.slotStartISO = issued.result[1].startTime
                    /\ villa.price = issued.result[1].price
         [] OTHER -> TRUE

\* The rental matcher has handled the answer getTimesResponse.
Matched ==
    props.widget = "rental" /\ timesReqs = <<>> /\ issued.state = "done"

\* The slot of the answer at position c = <<resource index, slot index>>.
SlotAt(c) == getTimesResponse[c[1]].slots[c[2]]

\* The positions of the answer whose slot starts less than a minute from t.
Within(t) ==
    {c \in {<<r, k>> : r \in 1..Len(getTimesResponse), k \in 1..MaxSlots} :
       /\ c[2] <= Len(getTimesResponse[c[1]].slots)
       /\ SlotAt(c).startTime - t < MinuteMs
       /\ t - SlotAt(c).startTime < MinuteMs}

\* What selectedSlot is when the matcher picked position c.
Picked(c) ==
    rental.selectedSlot = [timeSlot |-> SlotAt(c),
                           resourceID |-> getTimesResponse[c[1]].resourceID]

\* The instant the matcher compares slot starts with: the chosen start date
\* and time read as a wall-clock time of the browser (startDateTime).
BrowserStart == LocalDateTime(rental.startDate, rental.startTime)

\* The chosen start date and time read as a wall-clock time of the
\* service's time zone (the browser's when the service has none).
ServiceStart ==
    rental.startDate * DayMs + rental.startTime * HourMs
        - OffsetOf(rental.serviceTimezone) * MinuteMs

\* C8 (as amended): for sorted slot lists the matcher selects the first slot
\* in scan order that starts less than one minute from the start it
\* compares with: the earliest such slot of the lowest-index resource that
\* has one, even when a later resource has an earlier one; null when no
\* resource has one.
FirstMatchSelected ==
    Matched =>
       IF Within(BrowserStart) = {} THEN rental.selectedSlot = NullObject
       ELSE \E c \in Within(BrowserStart) :
               /\ \A d \in Within(BrowserStart) :
                     c[1] < d[1] \/ (c[1] = d[1] /\ c[2] <= d[2])
               /\ Picked(c)

\* C8: the matcher selected a slot of the first resource although the second
\* resource has a matching slot that starts earlier.
FirstMatchSelectedWitness ==
    /\ Matched
    /\ rental.selectedSlot # NullObject
    /\ rental.selectedSlot.resourceID = "r1"
    /\ \E d \in Within(BrowserStart) :
          /\ d[1] = 2
          /\ SlotAt(d).startTime < rental.selectedSlot.timeSlot.startTime

\* C8 (as stated): for sorted slot lists the matcher selects the
\* earliest-starting slot that starts less than one minute from the start
\* it compares with, the lowest-index resource among equal starts; null
\* when none.
EarliestMatchSelected ==
    Matched =>
       IF Within(BrowserStart) = {} THEN rental.selectedSlot = NullObject
       ELSE \E c \in Within(BrowserStart) :
               /\ \A d \in Within(BrowserStart) :
                     \/ SlotAt(c).startTime < SlotAt(d).startTime
                     \/ /\ SlotAt(c).startTime = SlotAt(d).startTime
                        /\ c[1] <= d[1]
               /\ Picked(c)

\* C9 (as stated): the matcher compares slot starts with the requested start
\* read in the service's time zone (the browser's only when the service has
\* none): when the answer has a slot less than a minute from that instant
\* (07:00Z for 09:00 in a UTC+2 service), such a slot is selected, whatever
\* the browser's offset.
ServiceZoneMatch ==
    (Matched /\ Within(ServiceStart) # {})
    => \E c \in Within(ServiceStart) : Picked(c)

\* A rejection of services.getDates is handled in this step.
GetDatesRejected ==
    \E i \in 1..MaxInFlight :
       \/ FlexFetchAvailableDatesReject(i)
       \/ RentalFetchAvailableDatesReject(i)
       \/ VillaFetchAvailabilityReject(i)

\* C10 (as stated): when services.getDates rejects, in flexible, rental and
\* villa, availableDates becomes empty and a non-null error string is set.
GetDatesFailureSurfaced ==
    [][GetDatesRejected => availableDates' = <<>> /\ error' # NULL]_vars

\* A click on a day of the calendar: DatePicker.handleDateClick (flexible),
\* DateRangePicker.handleDateClick (rental).
DayClicked ==
    \E date \in Days : FlexHandleDateClick(date) \/ RentalHandleDateClick(date)

\* C11 (as stated): while availableDates is empty and no getDates request is
\* in flight (the fetch failed or found nothing), a click on a day of the
\* calendar changes neither the selected date (flexible) nor the date range
\* (rental).
NoDaySelectableWhenEmpty ==
    [][(availableDates = <<>> /\ datesReqs = <<>> /\ serviceLoaded /\ DayClicked)
          => /\ flex.selectedDate' = flex.selectedDate
             /\ rental.startDate' = rental.startDate
             /\ rental.endDate' = rental.endDate]_vars

\* A rejection of services.getTimes is handled in this step by the flexible
\* or the group widget.
GetTimesRejected ==
    \E i \in 1..MaxInFlight : FlexOnDateChangeReject(i) \/ GroupLoadEventsReject(i)

\* C12 (as stated): when services.getTimes rejects in the flexible or the
\* group widget, the slot list (the event list) is reset to empty and an
\* error message is set; and in flexible no slot is selected while the
\* latest query is a failed one.
GetTimesFailureBlocksBooking ==
    [][/\ GetTimesRejected
             => /\ flex.timeSlots' = <<>>
                /\ group.events' = <<>>
                /\ error' # NULL
       /\ (props.widget = "flexible" /\ issued.state = "failed"
              /\ issued' = issued)
             => flex.selectedTime' = NullObject]_vars

\* The selection step is shown before and after the step, with the service
\* loaded (the villa widget loads no service).
OnSelectionStep ==
    /\ currentStep = SelectionStep /\ currentStep' = SelectionStep
    /\ serviceLoaded \/ props.widget = "villa"

\* A getTimes (getDates) request was issued in this step.
TimesIssued == Len(timesReqs') > Len(timesReqs)
DatesIssued == Len(datesReqs') > Len(datesReqs)

\* C13: on the selection step of a loaded service, a step that changes an
\* availability input issues a new query that carries the new value: in
\* flexible getTimes for the selected date, getTimes and getDates for the
\* duration and the resource; in group getTimes for the participant count;
\* in rental and villa getDates for the navigated month.
InputChangeRefetches ==
    [][OnSelectionStep =>
          CASE props.widget = "flexible" ->
                 /\ flex.selectedDate' # flex.selectedDate
                       => TimesIssued /\ Last(timesReqs').date = flex.selectedDate'
                 /\ flex.currentDuration' # flex.currentDuration
                       => /\ TimesIssued /\ DatesIssued
                          /\ Last(timesReqs').duration
                                = FlexDurationToISO(flex.currentDuration')
                          /\ Last(datesReqs').duration
                                = FlexDurationToISO(flex.currentDuration')
                 /\ flex.selectedResourceID' # flex.selectedResourceID
                       => /\ TimesIssued /\ DatesIssued
                          /\ Last(timesReqs').resourceIDs
                                = IF flex.selectedResourceID' = NULL THEN <<>>
                                  ELSE <<flex.selectedResourceID'>>
                          /\ Last(datesReqs').resourceIDs
                                = Last(timesReqs').resourceIDs
            [] props.widget = "group" ->
                 group.currentParticipants' # group.currentParticipants
                    => TimesIssued
                       /\ Last(timesReqs').spots = group.currentParticipants'
            [] props.widget = "rental" ->
                 rental.currentMonth' # rental.currentMonth
                    => /\ DatesIssued
                       /\ Last(datesReqs').from = MonthDate(rental.currentMonth', 1)
                       /\ Last(datesReqs').to
                             = MonthDate(rental.currentMonth' + 1, 0)
            [] OTHER ->
                 villa.currentMonth' # villa.currentMonth
                    => /\ DatesIssued
                       /\ Last(datesReqs').from = MonthDate(villa.currentMonth', 1)
                       /\ Last(datesReqs').to
                             = MonthDate(villa.currentMonth' + VisibleMonths, 0)]_vars

\* C13: the rental calendar was moved to the next month and the getDates
\* request for that month is in flight.
InputChangeRefetchesWitness ==
    /\ props.widget = "rental" /\ serviceLoaded
    /\ currentStep = "DateRange"
    /\ rental.currentMonth = 1
    /\ datesReqs # <<>>
    /\ Last(datesReqs).from = MonthDate(1, 1)

\* C14: a click on the form's button validates it: every required field
\* whose value is empty (never typed, the empty string, the empty list) gets
\* a message under its labelText, no field that is not required and empty
\* gets one, and the form counts as invalid (the click sends no booking)
\* exactly when the map of messages is not empty.
RequiredFieldsValidated ==
    [][FlexProceedToNextStep =>
          /\ \A f \in Range(allFields(props)) :
                formValues[f.labelText] \in {NULL, "", EmptyList}
                   => IF f.required
                      THEN /\ f.labelText \in DOMAIN formErrors'
                           /\ formErrors'[f.labelText] \notin {NULL, ""}
                      ELSE f.labelText \notin DOMAIN formErrors'
          /\ (DOMAIN formErrors' # {}) <=> (bookingReqs' = bookingReqs)]_vars

\* C14: of two empty fields the required one has a message and the other
\* has none, and nothing was sent.
RequiredFieldsValidatedWitness ==
    /\ Len(props.customFields) = 2
    /\ props.customFields[1].required /\ ~props.customFields[2].required
    /\ formValues["notes"] = EmptyList /\ formValues["site"] = NULL
    /\ DOMAIN formErrors = {"notes"}
    /\ bookingReqs = <<>>

\* The value v breaks the rule of the field's type: a url that does not
\* parse, a number that is not numeric, a phone number with letters.
BreaksTypeRule(f, v) ==
    \/ f.type = "url" /\ v \in {"abc", "42"}
    \/ f.type = "number" /\ v \in {"abc", "https://a.b"}
    \/ f.type = "phone" /\ v \in {"abc", "https://a.b"}

\* C15 (as stated): a click on the form's button gives a message to every
\* field, required or not, whose non-empty value breaks the rule of its
\* type, and then sends no booking.
TypeRulesAlwaysApplied ==
    [][FlexProceedToNextStep =>
          \A f \in Range(allFields(props)) :
             BreaksTypeRule(f, formValues[f.labelText])
                => /\ f.labelText \in DOMAIN formErrors'
                   /\ bookingReqs' = bookingReqs]_vars

\* The pickers and the action button are rendered: the main view of the
\* step widgets, the list or the modal form of the villa widget.
PickersShown ==
    IF props.widget = "villa" THEN VillaShown ELSE OnPage /\ MainView

\* C16 (as stated): while the company ID or the service ID is missing (in
\* villa also the API key or the resource ID), no widget renders its pickers
\* or its action button and no API request is in flight.
ConfigurationBlocksWidget ==
    NotConfigured
       => /\ ~PickersShown
          /\ ~serviceReq
          /\ timesReqs = <<>> /\ datesReqs = <<>> /\ bookingReqs = <<>>

\* The positions in useRouter().routes of the pages at a path.
RoutesAt(path) ==
    {i \in 1..Len(props.router) : props.router[i].path = path}

\* The id of the first page at a path.
FirstRouteAt(path) ==
    props.router[CHOOSE i \in RoutesAt(path) :
                    \A j \in RoutesAt(path) : i <= j].id

\* The id a result page is opened with: the first page at the path, else the
\* first page at "/", else the empty id.
NavigationTarget(path) ==
    IF RoutesAt(path) # {} THEN FirstRouteAt(path)
    ELSE IF RoutesAt("/") # {} THEN FirstRouteAt("/")
    ELSE ""

\* currentStep becomes the step in this transition.
Becomes(step) == currentStep' = step /\ currentStep # step

\* C17 (as stated): in flexible, rental and group, whenever currentStep
\* becomes Success the router is asked for a page whose path is
\* routes.confirmed, whenever it becomes Pending for a page whose path is
\* routes.pending, and a response with status pending and no payment URL
\* ends on Pending with that page as the target.
RoutesToConfiguredPage ==
    [][props.widget \in {"flexible", "rental", "group"}
          => /\ Becomes("Success")
                   => \E i \in RoutesAt(props.routes.confirmed) :
                         navigated' = props.router[i].id
             /\ Becomes("Pending")
                   => \E i \in RoutesAt(props.routes.pending) :
                         navigated' = props.router[i].id
             /\ \A response \in BookingResponses :
                   ( /\ MakeBookingResolve(response)
                     /\ response.status = "pending"
                     /\ ~HasPaymentURL(response) )
                      => /\ currentStep' = "Pending"
                         /\ \E i \in RoutesAt(props.routes.pending) :
                               navigated' = props.router[i].id]_vars

\* C17 (amended): in flexible, rental and group, whenever currentStep becomes
\* Success the router is asked for the first page at routes.confirmed,
\* whenever it becomes Pending for the first page at routes.pending, in both
\* cases for the first page at "/" when the site has no page at that path and
\* for the empty id when it has neither; a response with status pending and
\* no payment URL ends on Pending with that target.
RoutesToResultPage ==
    [][props.widget \in {"flexible", "rental", "group"}
          => /\ Becomes("Success")
                   => navigated' = NavigationTarget(props.routes.confirmed)
             /\ Becomes("Pending")
                   => navigated' = NavigationTarget(props.routes.pending)
             /\ \A response \in BookingResponses :
                   ( /\ MakeBookingResolve(response)
                     /\ response.status = "pending"
                     /\ ~HasPaymentURL(response) )
                      => /\ currentStep' = "Pending"
                         /\ navigated'
                               = NavigationTarget(props.routes.pending)]_vars

\* C17: on a site without a page at routes.pending the widget reached Pending
\* and asked for the page at "/".
RoutesToResultPageWitness ==
    /\ props.widget \in {"flexible", "rental", "group"}
    /\ RoutesAt(props.routes.pending) = {}
    /\ RoutesAt("/") # {}
    /\ currentStep = "Pending"
    /\ navigated = "home"
    /\ bookingReqs = <<>>

\* C18 (as stated): a widget enters its success state (Success, success in
\* villa) only in the step that handles a booking response without payment
\* URL whose status is confirmed.
SuccessOnlyWhenConfirmed ==
    [][(currentStep' \in {"Success", "success"} /\ currentStep' # currentStep)
          => \E response \in BookingResponses :
                /\ ~HasPaymentURL(response)
                /\ response.status = "confirmed"
                /\ \/ MakeBookingResolve(response)
                   \/ VillaOnBookResolve(response)]_vars

\* The action button of a step widget is enabled.
StepButtonEnabled ==
    CASE props.widget = "flexible" -> FlexBookButtonEnabled
      [] props.widget = "rental" -> RentalIsButtonEnabled
      [] props.widget = "group" -> GroupBookButtonEnabled
      [] OTHER -> FALSE

\* The conditions of the action button other than the submission flag.
StepButtonConditions ==
    CASE props.widget = "flexible" ->
            /\ (isAuthorized \/ props.guestMode)
            /\ (currentStep # "Date" \/ flex.selectedTime # NullObject)
            /\ (~props.showTerms \/ termsAccepted)
      [] props.widget = "rental" ->
            /\ (isAuthorized \/ props.guestMode)
            /\ currentStep = "DateRange"
                  => isDurationValid(rental) /\ rental.selectedSlot # NullObject
      [] props.widget = "group" ->
            /\ (isAuthorized \/ props.guestMode)
            /\ (currentStep # "Events" \/ group.selectedEvent # NullObject)
            /\ (~props.showTerms \/ ~props.guestMode \/ currentStep # "Form"
                \/ termsAccepted)
      [] OTHER -> FALSE

\* C19: when bookings.request rejects in flexible, rental or group, the
\* request is gone, submiting is false and the action button is enabled
\* exactly when its other conditions held before the rejection; in every
\* widget a booking request is added only by a click on the action button
\* (Book in villa), one request a click.
ResubmitAfterFailure ==
    [][/\ MakeBookingReject
             => /\ submiting' = FALSE
                /\ bookingReqs' = Tail(bookingReqs)
                /\ StepButtonEnabled' <=> StepButtonConditions
       /\ bookingReqs' # bookingReqs
             => \/ bookingReqs # <<>> /\ bookingReqs' = Tail(bookingReqs)
                \/ /\ ProceedToNextStep \/ VillaOnBook
                   /\ Len(bookingReqs') = Len(bookingReqs) + 1]_vars

\* C19: a booking failed, nothing is in flight and the action button is
\* enabled again on the step the booking was sent from.
ResubmitAfterFailureWitness ==
    /\ props.widget \in {"flexible", "rental", "group"}
    /\ error = "Failed to request booking"
    /\ ~submiting /\ bookingReqs = <<>>
    /\ currentStep \in {SelectionStep, "Form"}
    /\ StepButtonEnabled

\* C20 (as stated): in flexible, group and villa with showTerms enabled, a
\* booking request is issued only in a step that starts with termsAccepted
\* true, from the selection step or the form, guest or not.
TermsGateSubmission ==
    [][( /\ props.widget \in {"flexible", "group", "villa"}
         /\ props.showTerms
         /\ Len(bookingReqs') > Len(bookingReqs) )
          => termsAccepted]_vars

\* C21: in flexible, rental and group a booking request is added only when
\* the client is authorized or guestMode is on; when neither holds, no click
\* on the action button happens, the step never becomes Form, no booking
\* request is in flight and the only page the widget leaves for is /login.
LoginGatesBooking ==
    [][props.widget \in {"flexible", "rental", "group"}
          => /\ Len(bookingReqs') > Len(bookingReqs)
                   => isAuthorized \/ props.guestMode
             /\ ~(isAuthorized \/ props.guestMode)
                   => /\ ~ProceedToNextStep
                      /\ currentStep' = SelectionStep
                      /\ bookingReqs' = <<>>
                      /\ location' # location
                            => LoginRedirect /\ location' = "/login"]_vars

\* C21: a visitor without token and without guestMode had a slot to book and
\* was sent to /login.
LoginGatesBookingWitness ==
    /\ props.widget \in {"flexible", "rental", "group"}
    /\ ~(isAuthorized \/ props.guestMode)
    /\ \/ props.widget = "flexible" /\ flex.selectedTime # NullObject
       \/ props.widget = "rental" /\ rental.selectedSlot # NullObject
       \/ props.widget = "group" /\ group.selectedEvent # NullObject
    /\ location = "/login"

\* The milliseconds between the chosen start and end of the rental range.
RangeMs ==
    (rental.endDate * DayMs + rental.endTime * HourMs)
       - (rental.startDate * DayMs + rental.startTime * HourMs)

\* C22: in rental, every getTimes slot query in flight spans at least 24
\* hours, every booking request in flight has a duration of at least 24
\* hours, and on the DateRange step the action button is disabled while the
\* chosen range ends less than 24 hours after its start.
MinimumDurationGate ==
    props.widget = "rental"
       => /\ \A i \in DOMAIN timesReqs :
                timesReqs[i].to - timesReqs[i].from >= DayMs
          /\ \A i \in DOMAIN bookingReqs :
                bookingReqs[i].duration.H * 60 + bookingReqs[i].duration.M
                   >= 24 * 60
          /\ ( /\ currentStep = "DateRange"
               /\ rental.startDate # NoDate /\ rental.endDate # NoDate
               /\ RangeMs < DayMs )
                => ~RentalIsButtonEnabled

\* C22: a range of 23 hours is chosen on the DateRange step of a loaded
\* rental widget whose visitor may book, and nothing was asked for it.
MinimumDurationGateWitness ==
    /\ props.widget = "rental" /\ serviceLoaded
    /\ isAuthorized \/ props.guestMode
    /\ currentStep = "DateRange"
    /\ rental.startDate # NoDate /\ rental.endDate # NoDate
    /\ RangeMs = 23 * HourMs
    /\ timesReqs = <<>> /\ bookingReqs = <<>>
    /\ ~RentalIsButtonEnabled

\* The minutes of a duration: days * 1440 + hours * 60 + minutes.
TotalMinutes(duration) ==
    duration.days * 1440 + duration.hours * 60 + duration.minutes

\* The minutes a string PT<H>H<M>M stands for.
MinutesOfISO(iso) == iso.H * 60 + iso.M

\* C23: whenever the flexible widget sends a getTimes, getDates or booking
\* request, the H and M of its duration string add up to the minutes of the
\* duration shown by the picker; whenever the rental widget sends a getTimes
\* or booking request, they add up to the minutes between the chosen start
\* and end; H and M are never negative.
DurationRoundTrip ==
    [][/\ Len(timesReqs') > Len(timesReqs)
             => /\ Last(timesReqs').duration.H >= 0
                /\ Last(timesReqs').duration.M >= 0
                /\ MinutesOfISO(Last(timesReqs').duration)
                      = IF props.widget = "flexible"
                        THEN TotalMinutes(flex.currentDuration')
                        ELSE RangeMs' \div MinuteMs
       /\ Len(datesReqs') > Len(datesReqs)
             => MinutesOfISO(Last(datesReqs').duration)
                   = TotalMinutes(flex.currentDuration')
       /\ Len(bookingReqs') > Len(bookingReqs)
             => /\ Last(bookingReqs').duration.H >= 0
                /\ Last(bookingReqs').duration.M >= 0
                /\ MinutesOfISO(Last(bookingReqs').duration)
                      = IF props.widget = "flexible"
                        THEN TotalMinutes(flex.currentDuration)
                        ELSE RangeMs \div MinuteMs]_vars

\* C23: the flexible widget asked for the slots of a duration of 1h30 with
\* PT1H30M.
DurationRoundTripWitness ==
    /\ props.widget = "flexible"
    /\ flex.currentDuration = [days |-> 0, hours |-> 1, minutes |-> 30]
    /\ timesReqs # <<>>
    /\ Last(timesReqs).duration = [H |-> 1, M |-> 30]

\* The email the form's input holds ("" while nothing was typed).
EnteredEmail ==
    IF "email" \in DOMAIN formValues /\ formValues["email"] # NULL
    THEN formValues["email"] ELSE ""

\* C24 (as stated): while the form is shown, clientData is non-null exactly
\* when the email the form holds is non-empty, and then it carries an id.
ClientDataFollowsEmail ==
    (props.widget \in {"flexible", "rental", "group"} /\ currentStep = "Form")
       => /\ clientData # NullObject <=> EnteredEmail # ""
          /\ clientData # NullObject => clientData.id = "uuid"

\* The villa widget lists weeks.
WeeksMode == props.widget = "villa" /\ props.lengthMode = "weeks"

\* The villa widget lists stays of a number of days.
DaysMode == props.widget = "villa" /\ props.lengthMode = "days"

\* C26: in the weeks mode of the villa widget, after any sequence of clicks
\* on week cards, startDate and endDate are both null or both set; when set,
\* startDate falls on the configured start weekday, and endDate - startDate
\* is a positive multiple of 7 days, every week of which is a week the list
\* shows, from today on.
WeekSelectionAligned ==
    WeeksMode =>
       /\ villa.startDate = NoDate <=> villa.endDate = NoDate
       /\ villa.startDate # NoDate =>
             /\ getDay(villa.startDate) = props.weeksStartRule
             /\ villa.endDate > villa.startDate
             /\ (villa.endDate - villa.startDate) % 7 = 0
             /\ \A w \in 0..((villa.endDate - villa.startDate) \div 7 - 1) :
                   /\ villa.startDate + 7 * w \in RowStarts
                   /\ villa.startDate + 7 * w >= 1

\* C26: three consecutive weeks are selected in a list whose weeks do not
\* start on today's weekday, and the price of the stay was asked for.
WeekSelectionAlignedWitness ==
    /\ WeeksMode
    /\ props.weeksStartRule # props.todayWeekday
    /\ villa.startDate # NoDate
    /\ villa.endDate - villa.startDate = 3 * 7
    /\ villa.lastPriceKey # NullObject
    /\ villa.lastPriceKey.days = 3 * 7

\* C27 (as stated): in the days mode of the villa widget, the length of the
\* stay whose availability is checked, whose price is asked for and which
\* is booked never exceeds the configured maximum of days and, when no
\* fixed length is configured, is a multiple of the configured base length.
StayLengthWithinMaximum ==
    LET allowed(n) ==
           /\ n <= props.daysMaxTotal
           /\ props.fixedLengthDays = 0 => n % props.daysBaseLength = 0
    IN  DaysMode =>
           /\ villa.startDate # NoDate
                 => allowed(endBoundary(villa) - villa.startDate)
           /\ \A i \in 1..Len(timesReqs) :
                 /\ allowed(timesReqs[i].days)
                 /\ allowed(timesReqs[i].to - timesReqs[i].from)
           /\ \A i \in 1..Len(bookingReqs) : allowed(bookingReqs[i].days)

\* C25 (as stated): every error is recoverable by the visitor inside the
\* widget. From a state that shows an error some sequence of steps leads
\* to a state where a booking can be submitted; so in every state that
\* shows an error at least one step is possible: an action of the
\* visitor, or the answer to a request in flight (states in which the
\* visitor has used up the changes of the availability inputs that
\* MaxChanges allows are left aside).
ErrorsRecoverable ==
    (OnPage /\ props.configured /\ error # NULL /\ changes < MaxChanges)
       => ENABLED Next

\* The calendar day of the instant t in the browser's time zone.
LocalDay(t) == (t + OffsetOf(props.browserTimeZone) * MinuteMs) \div DayMs

\* The slots of an answer of getTimes, each with its resource.
SlotsOf(times) ==
    UNION {{[timeSlot |-> times[i].slots[j],
              resourceID |-> times[i].resourceID] :
               j \in 1..Len(times[i].slots)} : i \in 1..Len(times)}

\* C28: the events list the group widget builds from an answer of getTimes
\* has one event for every calendar date (of the browser's time zone) that
\* has a slot and no other, the event is a slot of the answer that no slot
\* of the same date, of whatever resource, starts before, and the list is
\* in ascending order of the dates.
EventsListPerDate ==
    [][(props.widget = "group" /\ timesReqs' # timesReqs
          /\ Len(timesReqs') < Len(timesReqs))
       => LET events == group'.events
              slots == SlotsOf(getTimesResponse)
              dayOf(e) == LocalDay(e.timeSlot.timeSlot.startTime)
          IN  /\ \A i \in 1..Len(events) :
                    /\ events[i].timeSlot \in slots
                    /\ events[i].date = LocalMidnight(events[i].timeSlot.timeSlot.startTime)
                    /\ \A s \in slots :
                          LocalDay(s.timeSlot.startTime) = dayOf(events[i])
                             => events[i].timeSlot.timeSlot.startTime
                                   <= s.timeSlot.startTime
              /\ \A i, j \in 1..Len(events) :
                    i < j => /\ dayOf(events[i]) < dayOf(events[j])
                             /\ events[i].date < events[j].date
              /\ \A s \in slots : \E i \in 1..Len(events) :
                    dayOf(events[i]) = LocalDay(s.timeSlot.startTime)]_vars

\* C28: in a browser two hours ahead of UTC the list has two events; the
\* first resource of the answer lists a later slot of a date before an
\* earlier one, and the event of that date is the earlier slot.
EventsListPerDateWitness ==
    /\ props.widget = "group" /\ props.browserTimeZone = "UTC+2"
    /\ Len(group.events) = 2
    /\ Len(getTimesResponse) = 2
    /\ Len(getTimesResponse[1].slots) = 2
    /\ LocalDay(getTimesResponse[1].slots[1].startTime)
          = LocalDay(getTimesResponse[1].slots[2].startTime)
    /\ getTimesResponse[1].slots[1].startTime
          > getTimesResponse[1].slots[2].startTime
    /\ \E k \in 1..2 :
          group.events[k].timeSlot
             = [timeSlot |-> getTimesResponse[1].slots[2], resourceID |-> "r1"]

\* The minutes of a duration lie within props.durations.min and
\* props.durations.max (a maximum of 0 minutes is no upper bound).
WithinDurations(minutes) ==
    /\ minutes >= convertToMinutes(props.durations.min)
    /\ \/ convertToMinutes(props.durations.max) = 0
       \/ minutes <= convertToMinutes(props.durations.max)

WithinParticipants(n) == n >= Participants.min /\ n <= Participants.max

\* C29: with settings whose minimum does not exceed the maximum, the
\* participant count of the group widget and the duration of the flexible
\* widget (the picker's and the component's), and the values of the
\* requests made for them, are within [min, max], a maximum duration of 0
\* being no upper bound.  With any settings, a click changes the value by
\* one step to a value within the range or changes nothing, and a request
\* is made only with a changed value.
PickersWithinRange ==
    /\ [](/\ (props.widget = "flexible"
               /\ WithinDurations(convertToMinutes(props.durations.min)))
             => /\ WithinDurations(convertToMinutes(flex.currentDuration))
                /\ WithinDurations(convertToMinutes(flex.pickerDuration))
                /\ \A i \in 1..Len(timesReqs) :
                      WithinDurations(MinutesOfISO(timesReqs[i].duration))
                /\ \A i \in 1..Len(datesReqs) :
                      WithinDurations(MinutesOfISO(datesReqs[i].duration))
          /\ (props.widget = "group" /\ Participants.min <= Participants.max)
             => /\ WithinParticipants(group.currentParticipants)
                /\ \A i \in 1..Len(timesReqs) :
                      WithinParticipants(timesReqs[i].spots))
    /\ [][/\ (props.widget = "flexible"
               /\ (flex.currentDuration' # flex.currentDuration
                     \/ flex.pickerDuration' # flex.pickerDuration
                     \/ Len(timesReqs') > Len(timesReqs)
                     \/ Len(datesReqs') > Len(datesReqs)))
             => LET old == convertToMinutes(flex.pickerDuration)
                    new == convertToMinutes(flex.pickerDuration')
                    step == convertToMinutes(props.durations.step)
                IN  /\ new = old + step \/ new = old - step
                    /\ WithinDurations(new)
                    /\ flex.currentDuration' = flex.pickerDuration'
                    /\ Len(timesReqs') > Len(timesReqs)
                          => MinutesOfISO(Last(timesReqs').duration) = new
                    /\ Len(datesReqs') > Len(datesReqs)
                          => MinutesOfISO(Last(datesReqs').duration) = new
          /\ (props.widget = "group"
               /\ (group.currentParticipants' # group.currentParticipants
                     \/ Len(timesReqs') > Len(timesReqs)))
             => LET old == group.currentParticipants
                    new == group.currentParticipants'
                IN  /\ new = old + 1 \/ new = old - 1
                    /\ WithinParticipants(new)
                    /\ Len(timesReqs') > Len(timesReqs)
                          => Last(timesReqs').spots = new]_vars

\* C29: the duration of a flexible widget has reached, by clicks on plus,
\* a maximum above the minimum, and the slots of that duration were asked
\* for.
PickersWithinRangeWitness ==
    /\ props.widget = "flexible"
    /\ convertToMinutes(props.durations.max)
          > convertToMinutes(props.durations.min)
    /\ convertToMinutes(flex.currentDuration)
          = convertToMinutes(props.durations.max)
    /\ changes >= 1
    /\ timesReqs # <<>>
    /\ MinutesOfISO(Last(timesReqs).duration)
          = convertToMinutes(props.durations.max)

\* The dates of an answer to getDates.
DatesOf(answer) == UNION {Range(answer[i]) : i \in 1..Len(answer)}

\* C30: after every successful fetch of the available dates, in the
\* flexible, the rental and the villa widget, availableDates holds each
\* date of the answer, each once, in ascending order, whatever the lists
\* of the answer repeat and whatever their order.
AvailableDatesSorted ==
    /\ [](\A i, j \in 1..Len(availableDates) :
             i < j => availableDates[i] < availableDates[j])
    /\ [][Len(datesReqs') < Len(datesReqs)
            => \E answer \in props.getDates :
                  Range(availableDates') = DatesOf(answer)]_vars

\* C30: the answer lists the dates of two resources, the first list in
\* descending order and with a date twice, the second with a date of the
\* first; availableDates holds the three dates.
AvailableDatesSortedWitness ==
    /\ datesReqs = <<>>
    /\ Len(availableDates) = 3
    /\ \E answer \in props.getDates :
          /\ Len(answer) = 2
          /\ Len(answer[1]) = 3 /\ Len(answer[2]) >= 1
          /\ answer[1][1] > answer[1][2] /\ answer[1][2] = answer[1][3]
          /\ answer[2][1] \in Range(answer[1])

\* C31 (as stated): at most one bookings.request is in flight at any time,
\* in each of the four widgets.
OneBookingInFlight == Len(bookingReqs) <= 1

\* The slot is one of the time slots shown, of the selected date, of the
\* length of the current duration and, when a resource is selected, of it.
CurrentSlot(slot) ==
    /\ slot \in Range(flex.timeSlots)
    /\ LocalDay(slot.timeSlot.startTime) = flex.selectedDate
    /\ slot.timeSlot.endTime - slot.timeSlot.startTime
          = DurationMs(flex.currentDuration)
    /\ flex.selectedResourceID # NULL
          => slot.resourceID = flex.selectedResourceID

\* C32 (as stated): in the flexible widget a non-null selectedTime is one
\* of the time slots shown, is a slot of the selected date with the length
\* of the current duration, and is of the selected resource when one is
\* selected; and a booking request is sent with such a slot.
SelectedTimeIsCurrent ==
    /\ [](props.widget = "flexible" /\ flex.selectedTime # NullObject
            => CurrentSlot(flex.selectedTime))
    /\ [][(props.widget = "flexible" /\ Len(bookingReqs') > Len(bookingReqs))
          => /\ flex.selectedTime # NullObject
             /\ CurrentSlot(flex.selectedTime)
             /\ Last(bookingReqs').startTime
                   = flex.selectedTime.timeSlot.startTime
             /\ Last(bookingReqs').resourceID
                   = flex.selectedTime.resourceID]_vars

\* ------------------------------------------------ the form by itself
\* A custom field the visitor may leave empty.
OptionalNotesField == [NotesField EXCEPT !.required = FALSE]

\* The flexible widget with a form whose custom field is optional, for a
\* guest and for a client who is logged in; and with the guest form and a
\* range of durations.
FormProps ==
    {Props("flexible", TRUE, guest, ~guest, <<OptionalNotesField>>, FALSE, FALSE) :
        guest \in BOOLEAN}
    \cup {Props("flexible", TRUE, TRUE, FALSE, <<>>, FALSE, TRUE)}

\* The widget after the service was loaded and the slots of the selected
\* day arrived; the first slot is selected and the form was never opened.
InitForm ==
    /\ props \in FormProps
    /\ formValues = << >>
    /\ formErrors = << >>
    /\ formData = <<>>
    /\ clientData = NullObject
    /\ currentStep = "Date"
    /\ loading = FALSE
    /\ serviceReq = FALSE
    /\ submiting = FALSE
    /\ error = NULL
    /\ serviceLoaded = TRUE
    /\ timesReqs = <<>>
    /\ datesReqs = <<>>
    /\ bookingReqs = <<>>
    /\ availableDates = <<1>>
    /\ location = "page"
    /\ navigated = NULL
    /\ termsAccepted = FALSE
    /\ LET slots == formatSlots(<<[resourceID |-> "r1",
                                   slots |-> <<Slot(DayMs + 10 * HourMs, HourMs)>>]>>,
                                OffsetOf(props.browserTimeZone))
       IN  /\ flex = [InitFlex EXCEPT !.resources = ServiceResources,
                                      !.timeSlots = slots,
                                      !.selectedTime = slots[1]]
           /\ issued = Issued("done", slots)
    /\ rental = InitRental
    /\ group = InitGroup
    /\ villa = InitVilla
    /\ getTimesResponse = <<>>
    /\ changes = 0

NextForm ==
    \/ \E up \in BOOLEAN : FlexHandleDurationChange(up)
    \/ FlexProceedToNextStep
    \/ FlexProceedToPreviousStep
    \/ \E key \in Labels(props) :
          \E value \in Typed(key) : HandleInputChange(key, value)
    \/ \E i \in 1..MaxInFlight + 1 : FlexHandleSelectedTime(i)
    \/ \E i \in 1..Len(timesReqs) :
          \E times \in FlexTimesResponses(timesReqs[i]) :
             FlexOnDateChangeResolve(i, times)
    \/ \E response \in BookingResponses : MakeBookingResolve(response)
    \/ MakeBookingReject

SpecForm == InitForm /\ [][NextForm]_vars

\* C33 (as stated): the metaData and the client sent with a booking are the
\* values the form shows when the booking is submitted, also after the form
\* was left with Back and opened again.
BookingCarriesShownValues ==
    [][(props.widget = "flexible" /\ Len(bookingReqs') > Len(bookingReqs))
          => /\ Last(bookingReqs').metaData = MetaOf(formValues)
             /\ Last(bookingReqs').client
                   = IF props.guestMode THEN ClientOf(formValues) ELSE NullObject]_vars

\* C34 (as stated): on the Date step of the flexible widget the duration
\* the parent holds (and queries and books with) is the duration the
\* DurationPicker displays, also after the visitor went to the form and back.
DurationPickerInSync ==
    (props.widget = "flexible" /\ currentStep = "Date")
       => flex.currentDuration = flex.pickerDuration

\* C35 (as stated): in the flexible and the group widget loading is true
\* whenever a getTimes request is in flight, also when several overlap.
LoadingWhileTimesInFlight ==
    (props.widget \in {"flexible", "group"} /\ timesReqs # <<>>) => loading

\* C36 (as stated): the startTime the villa widget sends in a booking
\* request is that of a slot which starts on the selected check-in date,
\* and the request is for the selected number of days.
VillaBooksSlotOfCheckIn ==
    [][(props.widget = "villa" /\ Len(bookingReqs') > Len(bookingReqs))
          => /\ villa.startDate # NoDate
             /\ Last(bookingReqs').startTime \div DayMs = villa.startDate
             /\ Last(bookingReqs').days = selectedDays(villa)]_vars

\* C37 (as stated): in the flexible widget, while availableDates is not
\* empty, every step that changes selectedDate sets it to a date that
\* availableDates contains.
SelectedDateIsAvailable ==
    [][(props.widget = "flexible" /\ availableDates # <<>>
          /\ flex.selectedDate' # flex.selectedDate)
          => flex.selectedDate' \in Range(availableDates)]_vars

\* C38: in the rental widget, after any sequence of day clicks, an endDate
\* that is set comes with a startDate that is set and is not before it; a
\* step changes the start or the end date only to a day that availableDates
\* contains at that moment (a click on an unavailable day changes nothing);
\* and a click on a day before the start, while the end is being chosen,
\* makes that day the start and clears the end.
DateRangeWellFormed ==
    /\ [](props.widget = "rental" /\ rental.endDate # NoDate
            => /\ rental.startDate # NoDate
               /\ rental.endDate >= rental.startDate)
    /\ [][props.widget = "rental"
            => /\ (rental.startDate' # rental.startDate
                     /\ rental.startDate' # NoDate)
                     => rental.startDate' \in Range(availableDates)
               /\ (rental.endDate' # rental.endDate /\ rental.endDate' # NoDate)
                     => rental.endDate' \in Range(availableDates)
               /\ \A date \in Days :
                     (/\ RentalHandleDateClick(date)
                      /\ rental.selectionMode = "end"
                      /\ rental.startDate # NoDate
                      /\ date < rental.startDate)
                        => /\ rental.startDate' = date
                           /\ rental.endDate' = NoDate]_vars

\* C38: both days are available and a range of two days was selected with
\* two clicks: the first day is the start, the second the end, and the
\* picker waits for a new start.
DateRangeWellFormedWitness ==
    /\ props.widget = "rental"
    /\ rental.startDate = 1 /\ rental.endDate = 2
    /\ rental.selectionMode = "start"
    /\ availableDates = <<1, 2>>

\* The steps a widget is ever on: the villa widget has its own three.
StepsInUse ==
    IF props.widget = "villa" THEN {"list", "form", "success"}
    ELSE {SelectionStep, "Form", "Success", "Pending"}

\* C39: over every sequence of user actions and API outcomes currentStep
\* is the selection step, Form, Success or Pending (never Error, CustomForm
\* or Guest), and a step that reports a failure sets the error string and
\* leaves currentStep as it is.
StepNeverError ==
    /\ [](currentStep \in StepsInUse)
    /\ [][(error' # NULL /\ error' # error) => currentStep' = currentStep]_vars

\* C39: a booking request of the form was rejected: the message is shown
\* and the widget is still on the Form step, ready for another attempt.
StepNeverErrorWitness ==
    /\ props.widget \in {"flexible", "rental", "group"}
    /\ error = "Failed to request booking"
    /\ currentStep = "Form"
    /\ bookingReqs = <<>> /\ ~submiting

====
